---- MODULE Spec2Model ----
(***************************************************************************)
(* The Marmalade backend (src/lib/backend.js, the MongoDB/GridFS version   *)
(* that starts at line 669): the packages, packageVersions and users       *)
(* collections, the GridFS blob namespace, and the step() chains of the    *)
(* public save and load operations.  Every storage call is a suspension    *)
(* point; the code between two storage calls runs to completion, so one    *)
(* action is one storage call together with the callback code that runs    *)
(* when it returns.                                                        *)
(***************************************************************************)
EXTENDS Integers, Sequences, FiniteSets, TLC

\* ------------------------------------------------------------------ bounds
MaxOps == 2        \* public operations started in one behaviour
MaxFaults == 1     \* storage calls that fail with a transport error

\* ------------------------------------------------------------- input sets
ReqSeq == <<"r1", "r2">>                   \* requests that may be in flight
ReqIds == {ReqSeq[i] : i \in 1..Len(ReqSeq)}
Users == {"u1", "u2"}                      \* _name of the registered users
\* The contents that are uploaded, by the name and version they declare: two
\* versions of one package key, one of them under a capitalised display name.
Uploads == {[name |-> <<"f", "o", "o">>, version |-> <<2>>],
            [name |-> <<"F", "o", "o">>, version |-> <<1>>]}
Names == {p.name : p \in Uploads}
Versions == {p.version : p \in Uploads}
\* What a save is given: one of the uploads, or content that does not parse
\* (no name or version comes out of it); a save from a file on disk may also
\* be given a file that cannot be read.
Contents ==
  {[name |-> p.name, version |-> p.version, wellFormed |-> TRUE,
    readOk |-> TRUE] : p \in Uploads}
  \cup {[name |-> <<>>, version |-> <<>>, wellFormed |-> FALSE,
         readOk |-> TRUE]}
Files ==
  Contents \cup {[name |-> <<>>, version |-> <<>>, wellFormed |-> FALSE,
                  readOk |-> FALSE]}
FileTypes == {"el", "tar"}                 \* the `type' argument / extension

\* --------------------------------------------------------- JavaScript values
Null == "null"
Undefined == "undefined"
CallbackFn == "function"    \* a function object: its ._name and .name are undefined
NoErr == "none"

\* error values, named by class and message
PermissionsError == "PermissionsError"
TypeError == "TypeError"
SyntaxError == "SyntaxError"
DuplicatePackageError == "Error: E11000 duplicate key error index: packages"
DuplicateVersionError == "Error: E11000 duplicate key error index: packageVersions"
StorageError == "Error: storage failure"
UnknownFiletypeError == "Error: Unknown filetype"
FileReadError == "Error: ENOENT"
LoadErrorFormat == "LoadError: is in other format"
LoadErrorNoPackage == "LoadError: does not exist"
LoadErrorNoVersion == "LoadError: doesn't have version"
InputErrorEmptyName == "InputError: Usernames can't be empty"
InputErrorShortPassword == "InputError: Passwords must be at least six characters long."
InputErrorEmail == "InputError: Invalid email address"
InputErrorExists == "InputError: already exists"
InputErrorNoUser == "InputError: doesn't exist"
DuplicateUserError == "Error: E11000 duplicate key error index: users"
OpensslError == "Error: openssl"

\* The class an `instanceof' test sees (util.errorClass sets up the chain).
ErrorClass(e) ==
  CASE e = PermissionsError -> "PermissionsError"
    [] e = TypeError -> "TypeError"
    [] e = SyntaxError -> "SyntaxError"
    [] e \in {LoadErrorFormat, LoadErrorNoPackage, LoadErrorNoVersion} -> "LoadError"
    [] e \in {InputErrorEmptyName, InputErrorShortPassword, InputErrorEmail,
              InputErrorExists, InputErrorNoUser} -> "InputError"
    [] OTHER -> "Error"

\* ------------------------------------------------------------------ strings
\* Strings are sequences of characters; String.prototype.toLowerCase maps
\* each character.
UpperChars == <<"F", "O">>
LowerChars == <<"f", "o">>

LowerChar(c) ==
  IF \E i \in 1..Len(UpperChars) : UpperChars[i] = c
    THEN LowerChars[CHOOSE i \in 1..Len(UpperChars) : UpperChars[i] = c]
    ELSE c

toLowerCase(s) == [i \in 1..Len(s) |-> LowerChar(s[i])]

Digits == <<"0", "1", "2", "3", "4", "5", "6", "7", "8", "9">>

RECURSIVE NumberToString(_)
NumberToString(n) ==
  IF n < 10 THEN <<Digits[n + 1]>>
  ELSE NumberToString(n \div 10) \o <<Digits[(n % 10) + 1]>>

\* Array.prototype.join('.') on a version array
RECURSIVE JoinDot(_)
JoinDot(version) ==
  IF Len(version) = 0 THEN <<>>
  ELSE IF Len(version) = 1 THEN NumberToString(version[1])
  ELSE NumberToString(version[1]) \o <<".">> \o JoinDot(Tail(version))

TypeChars(type) == IF type = "el" THEN <<"e", "l">> ELSE <<"t", "a", "r">>

\* the GridFS file name of a package
pkgFile_(name, type, version) ==
  name \o <<".">> \o TypeChars(type) \o <<"/">> \o JoinDot(version)

\* a versionIx_ whose loop stops one element early
versionIx_Short(version) == [i \in 0..(Len(version) - 2) |-> version[i + 1]]

\* the index value of a version array: the object {0: v0, 1: v1, ...}
versionIx_(version) == [i \in 0..(Len(version) - 1) |-> version[i + 1]]

Keys == {toLowerCase(n) : n \in Names}


\* -------------------------------------------------------------------- state
VARIABLES
  packages,         \* the `packages' collection: documents in insertion order
  packageVersions,  \* the `packageVersions' collection, in insertion order
  users,            \* the `users' collection, by _name
  blobs,            \* the GridFS files: a set of [file, data]
  latestVersion,    \* per package key, the denormalized latest version
  reqs,             \* per request, the position and locals of its step() chain
  started,          \* number of operations started so far
  faults,           \* number of storage calls that have failed so far
  accounts,         \* the `users' collection as the user operations see it:
                    \* the credential documents, in insertion order
  ureqs,            \* per user operation, the position and locals of its chain
  outbox,           \* the emails handed to sendmail
  px                \* the parser under examination: its input and its result

\* what the package operations leave alone
aux == <<accounts, ureqs, outbox, px>>

\* what the user operations and the parsers leave alone
store == <<packages, packageVersions, users, blobs, latestVersion, reqs>>

vars == <<packages, packageVersions, users, blobs, latestVersion, reqs,
          started, faults, accounts, ureqs, outbox, px>>

\* A request that has not been started.
IdleReq ==
  [pc |-> "idle", op |-> "none", uploader |-> Null, user |-> Null,
   callback |-> Undefined, name |-> <<>>, version |-> <<>>, type |-> "none",
   data |-> 0, oldPkg |-> <<>>, pkg |-> <<>>, found |-> FALSE,
   spRes |-> "none",
   cbCount |-> 0, cbErr |-> NoErr, cbData |-> 0, uncaught |-> NoErr,
   writes |-> 0, fresh |-> FALSE, keyStored |-> FALSE, expect |-> 0,
   seq |-> 0]

\* A user operation that has not been called.
IdleUReq ==
  [pc |-> "idle", op |-> "none", name |-> <<>>, email |-> <<>>,
   password |-> <<>>, token |-> Null, salt |-> Null, user |-> <<>>,
   invalid |-> NoErr, taken |-> FALSE,
   cbCount |-> 0, cbErr |-> NoErr, cbUser |-> <<>>, uncaught |-> NoErr]

\* No parser has been given an input.
NoParse == [fn |-> "none"]

Init ==
  /\ packages = <<>>
  /\ packageVersions = <<>>
  /\ users = [u \in Users |-> [packages |-> <<>>]]
  /\ blobs = {}
  /\ latestVersion = [k \in Keys |-> <<>>]
  /\ reqs = [r \in ReqIds |-> IdleReq]
  /\ started = 0
  /\ faults = 0
  /\ accounts = <<>>
  /\ ureqs = [r \in ReqIds |-> IdleUReq]
  /\ outbox = <<>>
  /\ px = NoParse

\* ------------------------------------------------------ collection helpers
\* collection.findOne(selector): the first matching document, as a sequence
\* of length 0 (null) or 1.
FindOne(coll, Match(_)) ==
  IF \E i \in 1..Len(coll) : Match(coll[i])
    THEN <<coll[CHOOSE i \in 1..Len(coll) :
                  Match(coll[i]) /\ \A j \in 1..(i - 1) : ~Match(coll[j])]>>
    ELSE <<>>

\* _.include(array, target): membership by ===
Include(array, target) == \E i \in 1..Len(array) : array[i] = target

\* user._name; a function object has no such property.
UserKey(user) == IF user \in Users THEN user ELSE Undefined

\* A value as it is stored in a document: undefined is stored as null.
Stored(v) == IF v = Undefined THEN Null ELSE v

\* pkg.type as set by parseElisp ("single") and parseDeclaration ("tar")
PkgType(fileType) == IF fileType = "el" THEN "single" ELSE "tar"

\* A storage call may fail only while the fault budget lasts.
FaultChoices == IF faults < MaxFaults THEN {FALSE, TRUE} ELSE {FALSE}

\* ------------------------------------------------- delivery of the outcome
\* The last step of an operation calls `callback(err, ...)'.  `callback' is
\* the caller's function, or step's `this' with no step left (which throws
\* the error it is given and otherwise does nothing), or undefined (calling
\* it throws a TypeError that no step is left to catch).
Deliver(q, err, data) ==
  CASE q.callback = "fn" ->
         [q EXCEPT !.pc = "done", !.cbCount = @ + 1, !.cbErr = err,
                   !.cbData = data]
    [] q.callback = "stepNext" ->
         [q EXCEPT !.pc = "done", !.uncaught = err]
    [] OTHER ->
         [q EXCEPT !.pc = "done", !.uncaught = TypeError]

\* The step after savePackage_ without its rethrow: the bytes are written
\* whatever savePackage_ reported.
SaveFailed_NoRethrow(q, err) == [q EXCEPT !.spRes = err, !.pc = "writeBlob"]

\* savePackage_ calls its callback with err: the step of saveElisp/saveTar_
\* that follows rethrows it and the last step delivers it.
SaveFailed(q, err) == Deliver([q EXCEPT !.spRes = err], err, 0)


\* History kept with a request for the statement of the properties: `fresh'
\* records that no row of the (key, version) was stored when the save was
\* called, `expect' the bytes a load is expected to return, `writes' the
\* number of writes the request has made, `uploader' the user who called,
\* `keyStored' that a row of the key was stored when the load was called,
\* `seq' the number of the call.
HasVersion(key, version) ==
  \E i \in 1..Len(packageVersions) :
    /\ packageVersions[i]._name = key
    /\ packageVersions[i].version = version

\* An error thrown where no step is left to catch it.
Uncaught(q, err) == [q EXCEPT !.pc = "done", !.uncaught = err]

\* --------------------------------------------------- the public save calls
\* An upload is described by the metadata its content parses to: the package
\* name, the version, and whether the content is well formed.  Its bytes are
\* labelled by the number of the operation, so that the bytes of two uploads
\* can be told apart.
NewReq(op, uploader, user, callback, name, version, type) ==
  [IdleReq EXCEPT !.op = op, !.uploader = uploader, !.user = user,
                  !.callback = callback, !.name = name, !.version = version,
                  !.type = type, !.data = started + 1, !.seq = started + 1,
                  !.fresh = /\ Len(name) > 0
                            /\ ~HasVersion(toLowerCase(name), version)]

\* saveElisp(elisp, user, callback): parseElisp, then savePackage_.
saveElisp(op, uploader, name, version, wellFormed, user, callback) ==
  LET q == NewReq(op, uploader, user, callback, name, version, "el")
  IN IF wellFormed THEN [q EXCEPT !.pc = "findPackage"]
     ELSE Deliver([q EXCEPT !.name = <<>>, !.version = <<>>], SyntaxError, 0)

\* saveTar_(pkg, tar, user, callback): savePackage_ of the parsed metadata.
saveTar_(op, uploader, name, version, user, callback) ==
  [NewReq(op, uploader, user, callback, name, version, "tar")
     EXCEPT !.pc = "findPackage"]

\* saveTarball(tar, user, callback): the chain has two steps and hands
\* `this' to saveTar_; `callback' is never used.
saveTarball(op, uploader, name, version, wellFormed, user, callback) ==
  IF wellFormed THEN saveTar_(op, uploader, name, version, user, "stepNext")
  ELSE Uncaught(NewReq(op, uploader, user, "stepNext", <<>>, <<>>, "tar"),
                SyntaxError)

\* saveTarFile(file, user, callback): parseTarFile, readFile, saveTar_; an
\* error of the first two is rethrown by the last step of the chain.
saveTarFile(op, uploader, name, version, wellFormed, readOk, user, callback) ==
  IF wellFormed /\ readOk
    THEN saveTar_(op, uploader, name, version, user, callback)
    ELSE Uncaught(NewReq(op, uploader, user, callback, <<>>, <<>>, "tar"),
                  IF wellFormed THEN FileReadError ELSE SyntaxError)

\* saveElispFile(file, user, callback): readFile, then saveElisp.
saveElispFile(op, uploader, name, version, wellFormed, readOk, user, callback) ==
  IF readOk
    THEN saveElisp(op, uploader, name, version, wellFormed, user, callback)
    ELSE Deliver(NewReq(op, uploader, user, callback, <<>>, <<>>, "el"),
                 FileReadError, 0)

\* savePackage(data, user, type, callback): dispatch on type.  The 'el'
\* branch calls saveElisp(data, callback): the callback arrives as `user'
\* and `callback' is undefined.
savePackage(uploader, name, version, wellFormed, user, type, callback) ==
  IF type = "el"
    THEN saveElisp("savePackage", uploader, name, version, wellFormed,
                   CallbackFn, Undefined)
  ELSE IF type = "tar"
    THEN saveTarball("savePackage", uploader, name, version, wellFormed,
                     user, callback)
  ELSE Deliver(NewReq("savePackage", uploader, user, callback, <<>>, <<>>,
                      type),
               UnknownFiletypeError, 0)

\* ------------------------------------------------------------ savePackage_
\* The unique indexes that the constructor ensures.
\* The index on _name created without the unique flag.
PackagesIndexViolated_NotUnique(coll, doc) == FALSE

PackagesIndexViolated(coll, doc) ==
  \E i \in 1..Len(coll) : coll[i]._name = doc._name

\* The index created without the unique flag: no insert is refused.
PackageVersionsIndexViolated_NotUnique(coll, doc) == FALSE

PackageVersionsIndexViolated(coll, doc) ==
  \E i \in 1..Len(coll) :
    coll[i]._name = doc._name /\ coll[i]._version = doc._version

\* The second step without the call of saveNewPackage_: a key without
\* package document goes straight to the insert of the version.
OwnerCheck_SkipNewPackage(oldPkg, user) ==
  IF Len(oldPkg) = 0 THEN "owner"
  ELSE IF Include(oldPkg[1].owners, UserKey(user)) THEN "owner"
  ELSE "denied"

\* The second step of savePackage_: what the chain does with the package
\* document that findOne returned.
OwnerCheck(oldPkg, user) ==
  IF Len(oldPkg) = 0 THEN "new"
  ELSE IF Include(oldPkg[1].owners, UserKey(user)) THEN "owner"
  ELSE "denied"

\* The package document inserted without its uploader as owner.
NewPackageDoc_NoOwner(name, owner) ==
  [_name |-> toLowerCase(name), name |-> name, owners |-> <<>>]

\* The document that saveNewPackage_ inserts.
NewPackageDoc(name, owner) ==
  [_name |-> toLowerCase(name), name |-> name,
   owners |-> <<Stored(UserKey(owner))>>]

\* The update with an empty selector and multi: every user document gets the
\* key.
PushPackage_EveryUser(coll, owner, key) ==
  [u \in DOMAIN coll |-> [coll[u] EXCEPT !.packages = Append(@, key)]]

\* users.update({_name: owner._name}, {$push: {packages: key}}): changes the
\* matching user document, if there is one.
PushPackage(coll, owner, key) ==
  IF UserKey(owner) \in DOMAIN coll
    THEN [coll EXCEPT ![UserKey(owner)].packages = Append(@, key)]
    ELSE coll

\* The document that savePackage_ inserts into packageVersions.
VersionDoc(q) ==
  [_name |-> toLowerCase(q.name), name |-> q.name, version |-> q.version,
   _version |-> versionIx_(q.version), type |-> PkgType(q.type)]

\* On a successful insert the package's latest version becomes the inserted
\* version.
SetLatestVersion(latest, key, version) == [latest EXCEPT ![key] = version]

\* savePackage_, first two steps: packages.findOne({_name: pkg._name}) and
\* the ownership decision.  q is the request about to issue the query; the
\* result is the request when the second step has run.
FindOldPkg(q, fail) ==
  LET oldPkg == FindOne(packages, LAMBDA d : d._name = toLowerCase(q.name))
      check == OwnerCheck(oldPkg, q.user)
      q1 == [q EXCEPT !.oldPkg = oldPkg, !.found = Len(oldPkg) > 0]
  IN IF fail THEN SaveFailed(q, StorageError)
     ELSE IF check = "new" THEN [q1 EXCEPT !.pc = "insertPackage"]
     ELSE IF check = "owner" THEN [q1 EXCEPT !.pc = "insertVersion"]
     ELSE SaveFailed(q1, PermissionsError)

\* saveNewPackage_, first step: packages.insert.
InsertPackage(r) ==
  LET q == reqs[r]
      doc == NewPackageDoc(q.name, q.user)
  IN
  /\ q.pc = "insertPackage"
  /\ \E fail \in FaultChoices :
       /\ faults' = IF fail THEN faults + 1 ELSE faults
       /\ IF fail
            THEN /\ reqs' = [reqs EXCEPT ![r] = SaveFailed(q, StorageError)]
                 /\ UNCHANGED packages
          ELSE IF PackagesIndexViolated(packages, doc)
            THEN /\ reqs' = [reqs EXCEPT ![r] = SaveFailed(q, DuplicatePackageError)]
                 /\ UNCHANGED packages
          ELSE /\ packages' = Append(packages, doc)
               /\ reqs' = [reqs EXCEPT ![r] =
                    [q EXCEPT !.pc = "updateUser", !.writes = @ + 1]]
  /\ UNCHANGED <<packageVersions, users, blobs, latestVersion, started,
               aux>>

\* saveNewPackage_, second step: users.update with $push.
UpdateUser(r) ==
  LET q == reqs[r] IN
  /\ q.pc = "updateUser"
  /\ \E fail \in FaultChoices :
       /\ faults' = IF fail THEN faults + 1 ELSE faults
       /\ IF fail
            THEN /\ reqs' = [reqs EXCEPT ![r] = SaveFailed(q, StorageError)]
                 /\ UNCHANGED users
            ELSE /\ users' = PushPackage(users, q.user, toLowerCase(q.name))
                 /\ reqs' = [reqs EXCEPT ![r] =
                      [q EXCEPT !.pc = "insertVersion",
                                !.writes = IF users' = users THEN @ ELSE @ + 1]]
  /\ UNCHANGED <<packages, packageVersions, blobs, latestVersion, started,
               aux>>

\* savePackage_, last step: packageVersions.insert; on success the caller
\* (saveElisp, saveTar_) goes on to write the bytes.
InsertVersion(r) ==
  LET q == reqs[r]
      doc == VersionDoc(q)
  IN
  /\ q.pc = "insertVersion"
  /\ \E fail \in FaultChoices :
       /\ faults' = IF fail THEN faults + 1 ELSE faults
       /\ IF fail
            THEN /\ reqs' = [reqs EXCEPT ![r] = SaveFailed(q, StorageError)]
                 /\ UNCHANGED <<packageVersions, latestVersion>>
          ELSE IF PackageVersionsIndexViolated(packageVersions, doc)
            THEN /\ reqs' = [reqs EXCEPT ![r] =
                      SaveFailed(q, DuplicateVersionError)]
                 /\ UNCHANGED <<packageVersions, latestVersion>>
          ELSE /\ packageVersions' = Append(packageVersions, doc)
               /\ latestVersion' =
                    SetLatestVersion(latestVersion, doc._name, doc.version)
               /\ reqs' = [reqs EXCEPT ![r] =
                    [q EXCEPT !.pc = "writeBlob", !.spRes = "ok",
                              !.writes = @ + 1]]
  /\ UNCHANGED <<packages, users, blobs, started,
               aux>>

\* GridStore write in mode 'w': the file's content is replaced.
WriteFile(files, file, data) ==
  {b \in files : b.file # file} \cup {[file |-> file, data |-> data]}

\* write_(pkgFile_(pkg.name, type, pkg.version), data), then callback(err, pkg).
WriteBlob(r) ==
  LET q == reqs[r] IN
  /\ q.pc = "writeBlob"
  /\ \E fail \in FaultChoices :
       /\ faults' = IF fail THEN faults + 1 ELSE faults
       /\ IF fail
            THEN /\ reqs' = [reqs EXCEPT ![r] = Deliver(q, StorageError, 0)]
                 /\ UNCHANGED blobs
            ELSE /\ blobs' = WriteFile(blobs, pkgFile_(q.name, q.type, q.version),
                                       q.data)
                 /\ reqs' = [reqs EXCEPT ![r] =
                      Deliver([q EXCEPT !.writes = @ + 1], NoErr, 0)]
  /\ UNCHANGED <<packages, packageVersions, users, latestVersion, started,
               aux>>


\* ------------------------------------------------------------- loadPackage
IsSave(q) ==
  q.op \in {"saveElisp", "saveElispFile", "saveTarball", "saveTarFile",
            "savePackage"}

\* The bytes that a completed, successful save of the same name, version and
\* kind has stored, if the record of such a save is at hand (0 if not).
SavedBytes(name, version, type) ==
  LET S == {s \in ReqIds :
              /\ IsSave(reqs[s]) /\ reqs[s].pc = "done"
              /\ reqs[s].cbCount = 1 /\ reqs[s].cbErr = NoErr
              /\ reqs[s].name = name /\ reqs[s].version = version
              /\ reqs[s].type = type}
  IN IF S = {} THEN 0 ELSE reqs[CHOOSE s \in S : TRUE].data

\* The test of the second step of loadPackage on the stored pkg.type.
FormatMismatch(pkgType, type) ==
  IF pkgType = "single" THEN type # "el" ELSE type # "tar"

\* loadPackage, first two steps: packageVersions.findOne and the code that
\* looks at the document.  With no document (a failed query passes none
\* either) the step starts handleLoadError and goes on to read pkg.type of
\* null: the TypeError is passed down the chain to the callback.
FindVersion(q, fail) ==
  LET pkg_ == IF fail THEN <<>>
              ELSE FindOne(packageVersions,
                           LAMBDA d : /\ d._name = toLowerCase(q.name)
                                      /\ d._version = versionIx_(q.version))
      q1 == [q EXCEPT !.pkg = pkg_, !.found = Len(pkg_) > 0,
                      !.keyStored =
                         \E i \in 1..Len(packageVersions) :
                           packageVersions[i]._name = toLowerCase(q.name)]
  IN IF Len(pkg_) = 0
       THEN [Deliver(q1, TypeError, 0) EXCEPT !.pc = "handleLoadError"]
     ELSE IF FormatMismatch(pkg_[1].type, q.type)
       THEN Deliver(q1, LoadErrorFormat, 0)
     ELSE [q1 EXCEPT !.pc = "readBlob"]

\* loadPackage(name, version, type, callback)
loadPackage(name, version, type, callback) ==
  [IdleReq EXCEPT !.pc = "findVersion", !.op = "loadPackage",
                  !.callback = callback, !.name = name, !.version = version,
                  !.type = type, !.expect = SavedBytes(name, version, type),
                  !.seq = started + 1]

\* ------------------------------------------------------- calls of the API
\* A public operation is called on a free request: the code up to its first
\* storage call runs, and (no other request being affected by either) the
\* first storage call with the step that receives its result.
\* The request records are the history of the last calls: a call takes a
\* record that was never used while there is one (the first of them: which
\* record holds a request makes no difference), and after that the record of
\* the finished request that was called first.
FreeReqs ==
  LET idle == {i \in 1..Len(ReqSeq) : reqs[ReqSeq[i]].pc = "idle"}
  IN IF idle # {}
       THEN {ReqSeq[CHOOSE i \in idle : \A j \in idle : i <= j]}
       ELSE {r \in ReqIds :
               /\ reqs[r].pc = "done"
               /\ \A r2 \in ReqIds :
                    reqs[r2].pc = "done" => reqs[r].seq <= reqs[r2].seq}

CanStart(r) == started < MaxOps /\ r \in FreeReqs

StartOp(r, q) ==
  /\ \E fail \in FaultChoices :
       /\ fail => q.pc \in {"findPackage", "findVersion"}
       /\ faults' = IF fail THEN faults + 1 ELSE faults
       /\ reqs' = [reqs EXCEPT ![r] =
            IF q.pc = "findPackage" THEN FindOldPkg(q, fail)
            ELSE IF q.pc = "findVersion" THEN FindVersion(q, fail)
            ELSE q]
  /\ started' = started + 1
  /\ UNCHANGED <<packages, packageVersions, users, blobs, latestVersion,
               aux>>

CallSaveElisp(r) ==
  /\ CanStart(r)
  /\ \E u \in Users, f \in Contents :
       StartOp(r, saveElisp("saveElisp", u, f.name, f.version, f.wellFormed,
                            u, "fn"))

CallSaveElispFile(r) ==
  /\ CanStart(r)
  /\ \E u \in Users, f \in Files :
       StartOp(r, saveElispFile("saveElispFile", u, f.name, f.version,
                                f.wellFormed, f.readOk, u, "fn"))

CallSaveTarball(r) ==
  /\ CanStart(r)
  /\ \E u \in Users, f \in Contents :
       StartOp(r, saveTarball("saveTarball", u, f.name, f.version, f.wellFormed,
                              u, "fn"))

CallSaveTarFile(r) ==
  /\ CanStart(r)
  /\ \E u \in Users, f \in Files :
       StartOp(r, saveTarFile("saveTarFile", u, f.name, f.version, f.wellFormed,
                              f.readOk, u, "fn"))

CallSavePackage(r) ==
  /\ CanStart(r)
  /\ \E u \in Users, f \in Contents, t \in FileTypes \cup {"zip"} :
       StartOp(r, savePackage(u, f.name, f.version, f.wellFormed, u, t, "fn"))

CallLoadPackage(r) ==
  /\ CanStart(r)
  /\ \E p \in Uploads, t \in FileTypes :
       StartOp(r, loadPackage(p.name, p.version, t, "fn"))

\* read_(pkgFile_(pkg._name, type, version)), then the callback.  Reading a
\* file that was never written fails or yields no bytes, depending on the
\* GridStore.
ReadBlob(r) ==
  LET q == reqs[r]
      file == pkgFile_(q.pkg[1]._name, q.type, q.version)
      hits == {b \in blobs : b.file = file}
  IN
  /\ q.pc = "readBlob"
  /\ \E fail \in FaultChoices :
       /\ faults' = IF fail THEN faults + 1 ELSE faults
       /\ IF fail
            THEN reqs' = [reqs EXCEPT ![r] = Deliver(q, StorageError, 0)]
          ELSE IF hits = {}
            THEN \E e \in {StorageError, NoErr} :
                   reqs' = [reqs EXCEPT ![r] = Deliver(q, e, 0)]
          ELSE reqs' = [reqs EXCEPT ![r] =
                 Deliver(q, NoErr, (CHOOSE b \in hits : TRUE).data)]
  /\ UNCHANGED <<packages, packageVersions, users, blobs, latestVersion, started,
               aux>>

\* What collection.find passes to its callback: a Cursor, an object without
\* a `version' property.
Cursor == [isNull |-> FALSE, hasVersion |-> FALSE]

\* The error that the second step of handleLoadError throws.
handleLoadError(err, pkg) ==
  IF err # NoErr THEN err
  ELSE IF pkg.isNull THEN LoadErrorNoPackage
  ELSE IF ~pkg.hasVersion THEN TypeError
  ELSE LoadErrorNoVersion

\* The find of handleLoadError returns; its error goes to the `this' of
\* loadPackage's second step, whose chain has no step left by then.
HandleLoadError(r) ==
  LET q == reqs[r] IN
  /\ q.pc = "handleLoadError"
  /\ \E fail \in FaultChoices :
       /\ faults' = IF fail THEN faults + 1 ELSE faults
       /\ reqs' = [reqs EXCEPT ![r] =
            Uncaught(q, handleLoadError(IF fail THEN StorageError ELSE NoErr,
                                        Cursor))]
  /\ UNCHANGED <<packages, packageVersions, users, blobs, latestVersion, started,
               aux>>

\* --------------------------------------------------------- user operations
\* The inputs of the user operations: names (two spellings of one key, and
\* the empty name), email addresses and passwords as typed, and the values
\* that `openssl rand' prints.
UserNames == {<<"F", "o">>, <<"f", "o">>, <<>>}
Emails == {<<"a", "@", "b">>, <<"a", "b">>}
Passwords == {<<"s", "e", "c", "r", "e", "t">>, <<"s", "e", "c", "r", "e">>}
Rand == {"x", "y"}
HexPasswords == {<<"0", "a">>, <<"1", "b">>}

\* the longest password that registerUser refuses
ShortPassword == 5

\* email.match(/.+@.+/): an @ with a character before and after it
EmailMatches(email) == \E i \in 2..(Len(email) - 1) : email[i] = "@"

\* The checks of the first step of registerUser: the error it throws.
Validate(name, email, password) ==
  IF Len(name) = 0 THEN InputErrorEmptyName
  ELSE IF Len(password) <= ShortPassword THEN InputErrorShortPassword
  ELSE IF ~EmailMatches(email) THEN InputErrorEmail
  ELSE NoErr

\* hashPassword(password, salt): the SHA-1 digest of password followed by
\* salt, taken to be free of collisions.
hashPassword(password, salt) == <<password, salt>>

\* users_.findOne({_name: key})
FindAccount(key) == FindOne(accounts, LAMBDA d : d._name = key)

\* The last step of a chain, or `callback' as the last step: callback(err, user).
UDeliver(q, err, user) ==
  [q EXCEPT !.pc = "done", !.cbCount = @ + 1, !.cbErr = err, !.cbUser = user]

UCanStart(r) == started < MaxOps /\ ureqs[r].pc \in {"idle", "done"}

\* registerUser, first two steps.  What the first step throws is handed to
\* the second step as `err', which the second step does not look at: it goes
\* on to generate the token unless findOne has passed it a user.
registerUser(name, email, password, fail) ==
  LET key == toLowerCase(name)
      invalid == Validate(name, email, password)
      user == IF invalid # NoErr \/ fail THEN <<>> ELSE FindAccount(key)
      q == [IdleUReq EXCEPT !.op = "registerUser", !.name = name,
                            !.email = email, !.password = password,
                            !.invalid = invalid,
                            !.taken = Len(FindAccount(key)) > 0]
  IN IF Len(user) > 0 THEN UDeliver(q, InputErrorExists, <<>>)
     ELSE [q EXCEPT !.pc = "token"]

CallRegisterUser(r) ==
  /\ UCanStart(r)
  /\ \E name \in UserNames, email \in Emails, password \in Passwords,
        fail \in FaultChoices :
       /\ fail => Validate(name, email, password) = NoErr
       /\ faults' = IF fail THEN faults + 1 ELSE faults
       /\ ureqs' = [ureqs EXCEPT ![r] = registerUser(name, email, password, fail)]
  /\ started' = started + 1
  /\ UNCHANGED <<accounts, outbox, px, store>>

\* registerUser, third step: the token that openssl printed.
RegToken(r) ==
  LET q == ureqs[r] IN
  /\ q.pc = "token"
  /\ \E fail \in FaultChoices :
       /\ faults' = IF fail THEN faults + 1 ELSE faults
       /\ IF fail
            THEN ureqs' = [ureqs EXCEPT ![r] = UDeliver(q, OpensslError, <<>>)]
            ELSE \E t \in Rand :
                   ureqs' = [ureqs EXCEPT ![r] =
                               [q EXCEPT !.pc = "salt", !.token = t]]
  /\ UNCHANGED <<accounts, outbox, px, store, started>>

\* The document that registerUser inserts.
UserDoc(q, salt) ==
  [_name |-> toLowerCase(q.name), name |-> q.name, email |-> q.email,
   digest |-> hashPassword(q.password, salt), salt |-> salt,
   token |-> q.token, packages |-> <<>>]

\* registerUser, fourth step: the salt that openssl printed; the user
\* document is built and its insert is issued.
RegSalt(r) ==
  LET q == ureqs[r] IN
  /\ q.pc = "salt"
  /\ \E fail \in FaultChoices :
       /\ faults' = IF fail THEN faults + 1 ELSE faults
       /\ IF fail
            THEN ureqs' = [ureqs EXCEPT ![r] = UDeliver(q, OpensslError, <<>>)]
            ELSE \E salt \in Rand :
                   ureqs' = [ureqs EXCEPT ![r] =
                               [q EXCEPT !.pc = "insert", !.salt = salt,
                                         !.user = <<UserDoc(q, salt)>>]]
  /\ UNCHANGED <<accounts, outbox, px, store, started>>

\* The unique index on users._name.
UsersIndexViolated(coll, doc) ==
  \E i \in 1..Len(coll) : coll[i]._name = doc._name

\* registerUser, last step: users_.insert has returned.
RegInsert(r) ==
  LET q == ureqs[r]
      doc == q.user[1]
  IN
  /\ q.pc = "insert"
  /\ \E fail \in FaultChoices :
       /\ faults' = IF fail THEN faults + 1 ELSE faults
       /\ IF fail
            THEN /\ ureqs' = [ureqs EXCEPT ![r] = UDeliver(q, StorageError, <<>>)]
                 /\ UNCHANGED accounts
          ELSE IF UsersIndexViolated(accounts, doc)
            THEN /\ ureqs' = [ureqs EXCEPT ![r] =
                                UDeliver(q, DuplicateUserError, <<>>)]
                 /\ UNCHANGED accounts
          ELSE /\ accounts' = Append(accounts, doc)
               /\ ureqs' = [ureqs EXCEPT ![r] = UDeliver(q, NoErr, <<doc>>)]
  /\ UNCHANGED <<outbox, px, store, started>>

\* loadUserWithToken(name, token, callback): findOne and the step that
\* compares the token; `return null' hands null to the callback.
loadUserWithToken(name, token, fail) ==
  LET user == FindAccount(toLowerCase(name))
      q == [IdleUReq EXCEPT !.op = "loadUserWithToken", !.name = name,
                            !.token = token, !.user = user]
  IN IF fail THEN UDeliver(q, StorageError, <<>>)
     ELSE IF Len(user) = 0 \/ user[1].token # token THEN UDeliver(q, NoErr, <<>>)
     ELSE UDeliver(q, NoErr, user)

CallLoadUserWithToken(r) ==
  /\ UCanStart(r)
  /\ \E name \in UserNames, token \in Rand, fail \in FaultChoices :
       /\ faults' = IF fail THEN faults + 1 ELSE faults
       /\ ureqs' = [ureqs EXCEPT ![r] = loadUserWithToken(name, token, fail)]
  /\ started' = started + 1
  /\ UNCHANGED <<accounts, outbox, px, store>>

\* loadUser(name, password, callback): findOne and the step that compares
\* the digests.
loadUser(name, password, fail) ==
  LET user == FindAccount(toLowerCase(name))
      q == [IdleUReq EXCEPT !.op = "loadUser", !.name = name,
                            !.password = password, !.user = user]
  IN IF fail THEN UDeliver(q, StorageError, <<>>)
     ELSE IF Len(user) = 0 THEN UDeliver(q, NoErr, <<>>)
     ELSE IF hashPassword(password, user[1].salt) # user[1].digest
       THEN UDeliver(q, NoErr, <<>>)
     ELSE UDeliver(q, NoErr, user)

CallLoadUser(r) ==
  /\ UCanStart(r)
  /\ \E name \in UserNames, password \in Passwords \cup HexPasswords,
        fail \in FaultChoices :
       /\ faults' = IF fail THEN faults + 1 ELSE faults
       /\ ureqs' = [ureqs EXCEPT ![r] = loadUser(name, password, fail)]
  /\ started' = started + 1
  /\ UNCHANGED <<accounts, outbox, px, store>>

\* resetPassword, first two steps: findOne and openssl as a group, then the
\* step that sets user.password (before it tests user) and calls saveUser,
\* which hashes the password into the digest of its argument and issues its
\* own findOne.
resetPassword(name, password, fail) ==
  LET user == FindAccount(toLowerCase(name))
      q == [IdleUReq EXCEPT !.op = "resetPassword", !.name = name,
                            !.password = password, !.user = user]
  IN IF fail THEN UDeliver(q, StorageError, <<>>)
     ELSE IF Len(user) = 0 THEN UDeliver(q, TypeError, <<>>)
     ELSE [q EXCEPT !.pc = "saveUser",
                    !.user = <<[user[1] EXCEPT
                                 !.digest = hashPassword(password, user[1].salt)]>>]

CallResetPassword(r) ==
  /\ UCanStart(r)
  /\ \E name \in UserNames, password \in HexPasswords, fail \in FaultChoices :
       /\ faults' = IF fail THEN faults + 1 ELSE faults
       /\ ureqs' = [ureqs EXCEPT ![r] = resetPassword(name, password, fail)]
  /\ started' = started + 1
  /\ UNCHANGED <<accounts, outbox, px, store>>

\* `this' in a step function is step's continuation: a function object that
\* has no users_ property.
StepThis == [users_ |-> Undefined]

\* The second step of saveUser evaluates this.users_.update(...): the error
\* that evaluating it throws, if any.
saveUserUpdate(this) == IF this.users_ = Undefined THEN TypeError ELSE NoErr

\* users_.update({_name: key}, user): the matching document is replaced.
ReplaceAccount(coll, doc) ==
  [i \in 1..Len(coll) |-> IF coll[i]._name = doc._name THEN doc ELSE coll[i]]

\* The email of the third step of resetPassword; its body is built from the
\* local `password', which no step assigns.
ResetEmail(user) == [to |-> user.email, password |-> Undefined]

\* saveUser's findOne has returned.  An error thrown in saveUser's second
\* step has no step left to catch it; were the update made, its result would
\* go to resetPassword's third step, which sends the email and calls back.
ResetSaveUser(r) ==
  LET q == ureqs[r]
      thrown == saveUserUpdate(StepThis)
  IN
  /\ q.pc = "saveUser"
  /\ \E fail \in FaultChoices :
       /\ faults' = IF fail THEN faults + 1 ELSE faults
       /\ IF thrown # NoErr
            THEN /\ ureqs' = [ureqs EXCEPT ![r] =
                                [q EXCEPT !.pc = "done", !.uncaught = thrown]]
                 /\ UNCHANGED <<accounts, outbox>>
          ELSE IF fail
            THEN /\ ureqs' = [ureqs EXCEPT ![r] = UDeliver(q, StorageError, <<>>)]
                 /\ UNCHANGED <<accounts, outbox>>
          ELSE /\ accounts' = ReplaceAccount(accounts, q.user[1])
               /\ outbox' = Append(outbox, ResetEmail(q.user[1]))
               /\ ureqs' = [ureqs EXCEPT ![r] = UDeliver(q, NoErr, <<>>)]
  /\ UNCHANGED <<px, store, started>>

UserNext ==
  \/ \E r \in ReqIds : CallRegisterUser(r)
  \/ \E r \in ReqIds : RegToken(r)
  \/ \E r \in ReqIds : RegSalt(r)
  \/ \E r \in ReqIds : RegInsert(r)
  \/ \E r \in ReqIds : CallLoadUserWithToken(r)
  \/ \E r \in ReqIds : CallLoadUser(r)
  \/ \E r \in ReqIds : CallResetPassword(r)
  \/ \E r \in ReqIds : ResetSaveUser(r)

UserSpec == Init /\ [][UserNext]_vars

\* =================================================================== parsers
\* The serializer (src/sexp.js), the Elisp reader (src/lib/sexpParser.js) and
\* the package parser (src/lib/packageParser.js) are pure functions of text.
\* Text is a string; a character is a string of length one.
Ch(s, i) == IF i \in 1..Len(s) THEN SubSeq(s, i, i) ELSE ""

\* str.substring(i - 1): the text from the i-th character on
From(s, i) == IF i > Len(s) THEN "" ELSE SubSeq(s, i, Len(s))

Whitespace == {" ", "\t", "\n"}
DigitChars == {"0", "1", "2", "3", "4", "5", "6", "7", "8", "9"}

\* the length of the longest prefix of s made of characters of the set
RECURSIVE Span(_, _)
Span(s, set) ==
  IF Len(s) > 0 /\ Head(s) \in set THEN 1 + Span(Tail(s), set) ELSE 0

\* the length of the longest prefix of s that holds no character of the set
RECURSIVE SpanNot(_, _)
SpanNot(s, set) ==
  IF Len(s) > 0 /\ Head(s) \notin set THEN 1 + SpanNot(Tail(s), set) ELSE 0

\* JavaScript values, tagged by their type
JSNull == [t |-> "null"]
JSString(s) == [t |-> "string", s |-> s]
JSBoolean(b) == [t |-> "boolean", b |-> b]
JSArray(l) == [t |-> "array", l |-> l]
\* a number: its integer part and the digits of its fraction
JSNumber(int, frac) == [t |-> "number", int |-> int, frac |-> frac]

\* the truth value of a JavaScript value, as || and while take it
Truthy(v) ==
  CASE v.t \in {"null", "undefined"} -> FALSE
    [] v.t = "string" -> v.s # ""
    [] v.t = "boolean" -> v.b
    [] v.t = "number" -> ~(v.int = 0 /\ v.frac = "")
    [] OTHER -> TRUE

\* ------------------------------------------------------------- src/sexp.js
\* str.replace: a backslash before every double quote and every backslash
RECURSIVE EscapeString(_)
EscapeString(str) ==
  IF Len(str) = 0 THEN ""
  ELSE (IF Head(str) \in {"\"", "\\"} THEN "\\" ELSE "")
         \o Head(str) \o EscapeString(Tail(str))

string(str) == "\"" \o EscapeString(str) \o "\""

bool(b) == IF b THEN "t" ELSE "nil"

\* Number.prototype.toString of a non-negative integer
RECURSIVE IntToString(_)
IntToString(n) ==
  IF n < 10 THEN Ch("0123456789", n + 1)
  ELSE IntToString(n \div 10) \o Ch("0123456789", (n % 10) + 1)

number(num) ==
  IntToString(num.int) \o (IF num.frac = "" THEN "" ELSE "." \o num.frac)

RECURSIVE sexp(_), listLike(_)
\* _(arr).map(exports.sexp).join(" ")
listLike(arr) ==
  IF Len(arr) = 0 THEN ""
  ELSE IF Len(arr) = 1 THEN sexp(arr[1])
  ELSE sexp(arr[1]) \o " " \o listLike(Tail(arr))

list(arr) == "(" \o listLike(arr) \o ")"

sexp(obj) ==
  CASE obj.t = "null" -> "nil"
    [] obj.t = "string" -> string(obj.s)
    [] obj.t = "array" -> list(obj.l)
    [] obj.t = "boolean" -> bool(obj.b)
    [] obj.t = "number" -> number(obj)

\* --------------------------------------------------- src/lib/sexpParser.js
\* A method of Parser returns its value, the text left in this._str, and
\* whether it threw a SyntaxError.
Parsed(val, str) == [val |-> val, str |-> str, err |-> FALSE]
ParseError(str) == [val |-> JSNull, str |-> str, err |-> TRUE]

\* _ws: while (this._tok(/\s+/) || this._tok(/;[^\n]*/));
RECURSIVE Parser_ws(_)
Parser_ws(str) ==
  IF Len(str) = 0 THEN str
  ELSE IF Head(str) \in Whitespace THEN Parser_ws(Tail(str))
  ELSE IF Head(str) = ";"
    THEN Parser_ws(From(str, 1 + SpanNot(str, {"\n"})))
  ELSE str

\* The characters that a symbol holds only after a backslash (the backquote
\* is one more, which no text of this model contains).
SymbolStop == {"#", "\"", "'", "(", ")", "[", "]", "\\"} \cup Whitespace

\* The length of the match of the rest of a symbol at the head of str:
\* characters outside SymbolStop, and backslash-character pairs.
RECURSIVE SymbolTail(_)
SymbolTail(str) ==
  IF Len(str) = 0 THEN 0
  ELSE IF Head(str) \notin SymbolStop THEN 1 + SymbolTail(Tail(str))
  ELSE IF Head(str) = "\\" /\ Len(str) >= 2 /\ Ch(str, 2) # "\n"
    THEN 2 + SymbolTail(From(str, 3))
  ELSE 0

\* The length of a match of the symbol token, 0 when there is none: the
\* first character may not be a digit or a dot either.
SymbolLen(str) ==
  IF Len(str) = 0 THEN 0
  ELSE IF Head(str) \notin (SymbolStop \cup DigitChars \cup {"."})
    THEN 1 + SymbolTail(Tail(str))
  ELSE IF Head(str) = "\\" /\ Len(str) >= 2 /\ Ch(str, 2) # "\n"
    THEN 2 + SymbolTail(From(str, 3))
  ELSE 0

\* s.replace(/\\(.)/g, '$1'): a backslash gives way to the character after it
RECURSIVE Unescape(_)
Unescape(s) ==
  IF Len(s) = 0 THEN ""
  ELSE IF Head(s) = "\\" /\ Len(s) >= 2 /\ Ch(s, 2) # "\n"
    THEN Ch(s, 2) \o Unescape(From(s, 3))
  ELSE Head(s) \o Unescape(Tail(s))

Parser_symbol(str) ==
  LET n == SymbolLen(str) IN
  IF n = 0 THEN Parsed(JSNull, str)
  ELSE Parsed(JSString(Unescape(SubSeq(str, 1, n))), From(str, n + 1))

\* the value of a string of digits, the empty string being 0
RECURSIVE DigitsValue(_)
DigitsValue(s) ==
  IF Len(s) = 0 THEN 0
  ELSE 10 * DigitsValue(SubSeq(s, 1, Len(s) - 1))
         + (CHOOSE d \in 0..9 : Ch("0123456789", d + 1) = Ch(s, Len(s)))

\* the digits of a fraction without its trailing zeros
RECURSIVE TrimZeros(_)
TrimZeros(s) ==
  IF Len(s) > 0 /\ Ch(s, Len(s)) = "0"
    THEN TrimZeros(SubSeq(s, 1, Len(s) - 1))
  ELSE s

\* _number: /[0-9]*(\.[0-9]+)/ needs a dot and a digit after it
Parser_number(str) ==
  LET i == Span(str, DigitChars)
      f == Span(From(str, i + 2), DigitChars)
  IN IF Ch(str, i + 1) = "." /\ f > 0
       THEN Parsed(JSNumber(DigitsValue(SubSeq(str, 1, i)),
                            TrimZeros(SubSeq(str, i + 2, i + 1 + f))),
                   From(str, i + 2 + f))
     ELSE Parsed(JSNull, str)

\* s.replace(/\\[ \n]/g, "")
RECURSIVE DropContinuations(_)
DropContinuations(s) ==
  IF Len(s) = 0 THEN ""
  ELSE IF Head(s) = "\\" /\ Len(s) >= 2 /\ Ch(s, 2) \in {" ", "\n"}
    THEN DropContinuations(From(s, 3))
  ELSE Head(s) \o DropContinuations(Tail(s))

\* _string: a quote, then any characters but quotes or backslash-character
\* pairs, then a quote.  The first alternative takes a backslash too, so the
\* token ends at the first quote after the opening one.
Parser_string(str) ==
  LET n == SpanNot(From(str, 2), {"\""}) IN
  IF Len(str) >= n + 2 /\ Ch(str, 1) = "\""
    THEN Parsed(JSString(Unescape(DropContinuations(SubSeq(str, 2, n + 1)))),
                From(str, n + 3))
  ELSE Parsed(JSNull, str)

RECURSIVE Parser_exp(_), Parser_sexp(_), SexpLoop(_, _)
\* exp: this._sexp() || this._symbol() || this._number() || this._string()
Parser_exp(str) ==
  LET a == Parser_sexp(str) IN
  IF a.err \/ Truthy(a.val) THEN a
  ELSE LET b == Parser_symbol(a.str) IN
       IF Truthy(b.val) THEN b
       ELSE LET c == Parser_number(b.str) IN
            IF Truthy(c.val) THEN c ELSE Parser_string(c.str)

\* the loop of _sexp, while ((exp = this.exp())), and the closing paren
SexpLoop(val, str) ==
  LET e == Parser_exp(str) IN
  IF e.err THEN e
  ELSE IF Truthy(e.val) THEN SexpLoop(Append(val, e.val), Parser_ws(e.str))
  ELSE IF Len(e.str) > 0 /\ Head(e.str) = ")"
    THEN Parsed(JSArray(val), Tail(e.str))
  ELSE ParseError(e.str)

Parser_sexp(str) ==
  IF Len(str) > 0 /\ Head(str) = "("
    THEN SexpLoop(<<>>, Parser_ws(Tail(str)))
  ELSE Parsed(JSNull, str)

\* exports.parse
parse(str) == Parser_exp(str)

\* ---------------------------------------------------- the parsers, applied
\* Every other part of the program stays as constructed.
Quiet ==
  /\ packages = <<>>
  /\ packageVersions = <<>>
  /\ users = [u \in Users |-> [packages |-> <<>>]]
  /\ blobs = {}
  /\ latestVersion = [k \in Keys |-> <<>>]
  /\ reqs = [r \in ReqIds |-> IdleReq]
  /\ started = 0
  /\ faults = 0
  /\ accounts = <<>>
  /\ ureqs = [r \in ReqIds |-> IdleUReq]
  /\ outbox = <<>>

\* a call of the function fn that has not returned yet
Call(fn, arg) == [fn |-> fn, pc |-> "call", arg |-> arg]
\* the call after its return
Return(call, out) == [fn |-> call.fn, pc |-> "return", arg |-> call.arg,
                      out |-> out]
Called(fn) == px.fn = fn /\ px.pc = "call"
Returned(fn) == px.fn = fn /\ px.pc = "return"

\* The values of the round trip: strings (empty, with a space, a quote, a
\* backslash), integers and decimals, booleans, and lists of them, one level
\* of nesting included.
MaxItems == 2
SexpStrings == {"", "a", "a b", "a\"b", "a\\b"}
SexpNumbers == {JSNumber(0, ""), JSNumber(1, ""), JSNumber(2, ""),
                JSNumber(10, ""), JSNumber(1, "5"), JSNumber(0, "5")}
SexpAtoms ==
  {JSString(s) : s \in SexpStrings} \cup SexpNumbers
    \cup {JSBoolean(b) : b \in BOOLEAN}
SeqsUpTo(set, n) == UNION {[1..k -> set] : k \in 0..n}
SexpLists == {JSArray(l) : l \in SeqsUpTo(SexpAtoms, MaxItems)}
SexpNested ==
  {JSArray(<<a, JSArray(l)>>) :
     a \in SexpAtoms, l \in SeqsUpTo({JSNumber(0, ""), JSNumber(1, "")}, MaxItems)}
SexpValues == SexpAtoms \cup SexpLists \cup SexpNested

\* sexpParser.parse(sexp.sexp(value))
RoundTrip ==
  /\ Called("roundTrip")
  /\ px' = Return(px, parse(sexp(px.arg)))
  /\ UNCHANGED <<store, started, faults, accounts, ureqs, outbox>>

\* ------------------------------------------------------- the version order
\* A version is stored twice: as the array `version' and as the index value
\* _version = versionIx_(version), the object {0: v0, 1: v1, ...}.  The
\* database orders index values as documents: field by field from the first,
\* a number by its value, and a document that ends first being the smaller.
RECURSIVE IxLeqFrom(_, _, _)
IxLeqFrom(ix1, ix2, i) ==
  IF i \notin DOMAIN ix1 THEN TRUE
  ELSE IF i \notin DOMAIN ix2 THEN FALSE
  ELSE IF ix1[i] # ix2[i] THEN ix1[i] < ix2[i]
  ELSE IxLeqFrom(ix1, ix2, i + 1)

IxLeq(ix1, ix2) == IxLeqFrom(ix1, ix2, 0)

\* the order of two versions: that of their index values
VersionOrder(v1, v2) == IxLeq(versionIx_(v1), versionIx_(v2))

\* The versions compared: one or two elements, single- and double-digit.
MaxVersionLen == 2
OrderElems == {0, 1, 2, 10}
OrderVersions == UNION {[1..k -> OrderElems] : k \in 1..MaxVersionLen}

\* Three versions, compared pairwise: out[i][j] is arg[i] <= arg[j].
CompareVersions ==
  /\ Called("versionOrder")
  /\ px' = Return(px, [i \in 1..3 |->
                         [j \in 1..3 |-> VersionOrder(px.arg[i], px.arg[j])]])
  /\ UNCHANGED <<store, started, faults, accounts, ureqs, outbox>>

\* ------------------------------------------------ src/lib/packageParser.js
LowerAlpha == "abcdefghijklmnopqrstuvwxyz"
UpperAlpha == "ABCDEFGHIJKLMNOPQRSTUVWXYZ"
Letters == {Ch(LowerAlpha, i) : i \in 1..26} \cup {Ch(UpperAlpha, i) : i \in 1..26}
Blank == {" ", "\t"}

\* String.prototype.toLowerCase of a text
RECURSIVE LowerCaseText(_)
LowerCaseText(s) ==
  IF Len(s) = 0 THEN ""
  ELSE (IF \E i \in 1..26 : Ch(UpperAlpha, i) = Head(s)
          THEN Ch(LowerAlpha, CHOOSE i \in 1..26 : Ch(UpperAlpha, i) = Head(s))
          ELSE Head(s))
         \o LowerCaseText(Tail(s))

\* The lines of a text.  With the m flag ^ matches at the start of each, and
\* a dot never matches the newline that ends one.
RECURSIVE SplitLines(_)
SplitLines(str) ==
  LET n == SpanNot(str, {"\n"}) IN
  IF n = Len(str) THEN <<str>>
  ELSE <<SubSeq(str, 1, n)>> \o SplitLines(From(str, n + 2))

\* lines.join with a newline
RECURSIVE JoinLines(_)
JoinLines(lines) ==
  IF Len(lines) = 0 THEN ""
  ELSE IF Len(lines) = 1 THEN lines[1]
  ELSE lines[1] \o "\n" \o JoinLines(Tail(lines))

\* A regular expression is matched piece by piece from the left.  A match in
\* progress is whether it still holds, and the text not matched yet.  Every
\* repetition below is followed by a piece that none of its characters can
\* start, so the longest repetition is the only one that can match.
Matching(s) == [ok |-> TRUE, s |-> s]
NoMatch == [ok |-> FALSE, s |-> ""]

StartsWith(s, prefix) ==
  Len(s) >= Len(prefix) /\ SubSeq(s, 1, Len(prefix)) = prefix

EndsWith(s, suffix) ==
  Len(s) >= Len(suffix) /\ From(s, Len(s) - Len(suffix) + 1) = suffix

\* the literal text
Lit(m, text) ==
  IF m.ok /\ StartsWith(m.s, text)
    THEN Matching(From(m.s, Len(text) + 1)) ELSE NoMatch

\* the literal text under the i flag; text is in lower case
LitNoCase(m, text) ==
  IF m.ok /\ Len(m.s) >= Len(text)
          /\ LowerCaseText(SubSeq(m.s, 1, Len(text))) = text
    THEN Matching(From(m.s, Len(text) + 1)) ELSE NoMatch

\* (text)?
Opt(m, text) ==
  IF m.ok /\ StartsWith(m.s, text)
    THEN Matching(From(m.s, Len(text) + 1)) ELSE m

\* one character of the set
OneOf(m, set) ==
  IF m.ok /\ Ch(m.s, 1) \in set THEN Matching(From(m.s, 2)) ELSE NoMatch

\* n or more characters of the set
AtLeast(m, n, set) ==
  IF m.ok /\ Span(m.s, set) >= n
    THEN Matching(From(m.s, Span(m.s, set) + 1)) ELSE NoMatch

\* n or more characters outside the set
AtLeastNot(m, n, set) ==
  IF m.ok /\ SpanNot(m.s, set) >= n
    THEN Matching(From(m.s, SpanNot(m.s, set) + 1)) ELSE NoMatch

\* a | b
Either(a, b) == IF a.ok THEN a ELSE b

\* the text matched between two places of a match
Matched(a, b) == SubSeq(a.s, 1, Len(a.s) - Len(b.s))

\* The regular expression of getHeaders at the start of a line,
\*   ^;;+[ \t]+(?:@\(#\))?[ \t]*\$?([a-z\-]+)[ \t]*:[ \t]+(.*)   with flag i
\* up to the name, the name, and the colon and the value.
HeaderPrefix(line) ==
  Opt(AtLeast(Opt(AtLeast(AtLeast(Matching(line), 2, {";"}), 1, Blank),
                  "@(#)"),
              0, Blank),
      "$")

HeaderResult(a, b, c) ==
  IF c.ok THEN [ok |-> TRUE, name |-> Matched(a, b), val |-> c.s]
  ELSE [ok |-> FALSE, name |-> "", val |-> ""]

HeaderValue(a, b) ==
  HeaderResult(a, b, AtLeast(Lit(AtLeast(b, 0, Blank), ":"), 1, Blank))

HeaderName(a) == HeaderValue(a, AtLeast(a, 1, Letters \cup {"-"}))

HeaderMatch(line) == HeaderName(HeaderPrefix(line))

\* headers[name] = val
SetHeader(headers, name, val) ==
  [k \in DOMAIN headers \cup {name} |-> IF k = name THEN val ELSE headers[k]]

\* util.scan calls the function for each match in the order of the text; the
\* function of getHeaders stores a value that is not empty.
RECURSIVE ScanHeaders(_, _)
ScanHeaders(lines, headers) ==
  IF Len(lines) = 0 THEN headers
  ELSE LET m == HeaderMatch(lines[1]) IN
       ScanHeaders(Tail(lines),
                   IF m.ok /\ m.val # ""
                     THEN SetHeader(headers, LowerCaseText(m.name), m.val)
                   ELSE headers)

NoHeaders == [k \in {} |-> ""]

getHeaders(elisp) == ScanHeaders(SplitLines(elisp), NoHeaders)

\* The texts scanned for headers: up to MaxHeaderLines lines out of these.
MaxHeaderLines == 3
HeaderLines == {";; Version: 1.0", ";;; version:\t2.0", ";; Version: ",
                ";; Package-Version: 3", ";; $Revision: 4 $", "; Version: 5",
                ";; Hello world."}
HeaderTexts ==
  {JoinLines(l) : l \in UNION {[1..k -> HeaderLines] : k \in 1..MaxHeaderLines}}

GetHeaders ==
  /\ Called("getHeaders")
  /\ px' = Return(px, getHeaders(px.arg))
  /\ UNCHANGED <<store, started, faults, accounts, ureqs, outbox>>

\* -------------------------------------------------------------- parseElisp
\* A function returns a value or throws an error of a class with a message.
Value(v) == [threw |-> FALSE, value |-> v]
Throw(class, message) ==
  [threw |-> TRUE, error |-> [class |-> class, message |-> message]]

\* The places where ^ matches under the m flag: the start of the text and
\* the place after each newline.
LineStarts(str) ==
  {1} \cup {i + 1 : i \in {j \in 1..Len(str) : Ch(str, j) = "\n"}}

MinOf(S) == CHOOSE x \in S : \A y \in S : x <= y

\* str.substring(from, to) with both places counted from 1, to excluded;
\* substring swaps its arguments when the first is the larger.
Substring(str, from, to) ==
  IF from <= to THEN SubSeq(str, from, to - 1) ELSE SubSeq(str, to, from - 1)

\* /^;;; ([^ ]*)\.el --- (.*)$/m at the head of s: the characters up to the
\* first space end in .el, and the description is the rest of the line.
StartResult(token, c) ==
  IF c.ok /\ EndsWith(token, ".el")
    THEN [ok |-> TRUE, filename |-> SubSeq(token, 1, Len(token) - 3),
          desc |-> Matched(c, AtLeastNot(c, 0, {"\n"}))]
  ELSE [ok |-> FALSE, filename |-> "", desc |-> ""]

StartToken(a) ==
  StartResult(Matched(a, AtLeastNot(a, 0, {" "})),
              Lit(AtLeastNot(a, 0, {" "}), " --- "))

StartMarkerAt(s) == StartToken(Lit(Matching(s), ";;; "))

\* The length of the match of
\*   /^(\(provide[^)]+\) +)?;;; <filename>\.el ends here/m
\* at the head of s, 0 when there is none.
EndMarker(filename) == ";;; " \o filename \o ".el ends here"

EndLength(s, m) == IF m.ok THEN Len(s) - Len(m.s) ELSE 0

EndMarkerAt(s, filename) ==
  EndLength(s,
    Either(Lit(AtLeast(Lit(AtLeastNot(Lit(Matching(s), "(provide"), 1, {")"}),
                           ")"),
                       1, {" "}),
               EndMarker(filename)),
           Lit(Matching(s), EndMarker(filename))))

\* stripRCS: /^[ \t]*\$Revision:[ \t]([0-9.]+)[ \t]*\$$/ gives its group
StripResult(str, a, b) ==
  IF Lit(AtLeast(b, 0, Blank), "$") = Matching("") THEN Matched(a, b) ELSE str

StripNumber(str, a) == StripResult(str, a, AtLeast(a, 1, DigitChars \cup {"."}))

stripRCS(str) ==
  StripNumber(str,
    OneOf(Lit(AtLeast(Matching(str), 0, Blank), "$Revision:"), Blank))

\* str.split(".")
RECURSIVE SplitDots(_)
SplitDots(str) ==
  LET n == SpanNot(str, {"."}) IN
  IF n = Len(str) THEN <<str>>
  ELSE <<SubSeq(str, 1, n)>> \o SplitDots(From(str, n + 2))

\* String.prototype.trim
RECURSIVE TrimRight(_)
TrimRight(str) ==
  IF Len(str) > 0 /\ Ch(str, Len(str)) \in Whitespace
    THEN TrimRight(SubSeq(str, 1, Len(str) - 1))
  ELSE str

Trim(str) == TrimRight(From(str, Span(str, Whitespace) + 1))

\* s.match(/^\d+$/m): under the m flag ^ and $ match at the ends of every
\* line, so one line of s that is all digits is a match
DigitLine(s) ==
  \E i \in 1..Len(SplitLines(s)) :
    Len(SplitLines(s)[i]) > 0
      /\ Span(SplitLines(s)[i], DigitChars) = Len(SplitLines(s)[i])

\* The value that is not a number.  The numbers of a version are integers
\* here, and no numeral of digits is negative: -1 stands for NaN.
NaN == -1

\* Number(s) of a text with a line of digits: the white space around the
\* numeral is dropped, and a text that is no numeral then gives NaN
NumberOf(s) ==
  IF Span(Trim(s), DigitChars) = Len(Trim(s)) THEN DigitsValue(Trim(s))
  ELSE NaN

\* parseVersion: every piece between dots matches /^\d+$/m
parseVersion(str) ==
  LET pieces == SplitDots(str) IN
  IF \A i \in 1..Len(pieces) : DigitLine(pieces[i])
    THEN Value([i \in 1..Len(pieces) |-> NumberOf(pieces[i])])
  ELSE Throw("SyntaxError", "Version \"" \o str
               \o "\" must contain only numbers separated by dots.")

\* parseSexp(str, Array)
parseSexp(str) ==
  LET r == parse(str) IN
  IF r.err THEN Throw("SyntaxError", "Lisp parser error")
  ELSE IF r.val.t # "array"
    THEN Throw("SyntaxError", "Expected value to be of type Array")
  ELSE Value(r.val.l)

\* [require[0], parseVersion(require[1])] for one item of the list: an item
\* is indexed whatever it is, and parseVersion calls split on what it gets.
Require(require) ==
  CASE require.t = "array" /\ Len(require.l) >= 2 /\ require.l[2].t = "string" ->
         LET v == parseVersion(require.l[2].s) IN
         IF v.threw THEN v ELSE Value(<<require.l[1], v.value>>)
    [] require.t = "string" /\ Len(require.s) >= 2 ->
         LET v == parseVersion(Ch(require.s, 2)) IN
         IF v.threw THEN v ELSE Value(<<JSString(Ch(require.s, 1)), v.value>>)
    [] OTHER -> Throw("TypeError", "Cannot call method 'split'")

RECURSIVE MapRequire(_)
MapRequire(items) ==
  IF Len(items) = 0 THEN Value(<<>>)
  ELSE LET first == Require(items[1]) IN
       IF first.threw THEN first
       ELSE LET rest == MapRequire(Tail(items)) IN
            IF rest.threw THEN rest
            ELSE Value(<<first.value>> \o rest.value)

\* parseRequires of a header that is present
parseRequires(str) ==
  LET items == parseSexp(str) IN
  IF items.threw THEN items ELSE MapRequire(items.value)

\* The opening of a section at the head of s,
\*   /^(;{3};*) (commentary|documentation)[ \t]*:/im
\* three or more semicolons, one space, the name, blanks and a colon.
SectionStartResult(s, a, b, c, d) ==
  IF d.ok
    THEN [ok |-> TRUE, level |-> Len(Matched(Matching(s), a)),
          name |-> Matched(b, c), length |-> Len(s) - Len(d.s)]
  ELSE [ok |-> FALSE, level |-> 0, name |-> "", length |-> 0]

SectionStartColon(s, a, b, c) ==
  SectionStartResult(s, a, b, c, Lit(AtLeast(c, 0, Blank), ":"))

SectionStartName(s, a, b) ==
  SectionStartColon(s, a, b,
    Either(LitNoCase(b, "commentary"), LitNoCase(b, "documentation")))

SectionStartSemis(s, a) == SectionStartName(s, a, Lit(a, " "))

SectionStartAt(s) == SectionStartSemis(s, AtLeast(Matching(s), 3, {";"}))

\* a section end that looks at the semicolons but not at their number
SectionEndAt_AnyLevel(s, level) ==
  LET semis == Span(s, {";"})
      line == SubSeq(s, 1, SpanNot(s, {"\n"}))
  IN \/ /\ semis >= 3
        /\ Ch(s, semis + 1) = " "
        /\ \E i \in (semis + 2)..Len(line) : Ch(line, i) = ":"
     \/ Ch(s, Span(s, Whitespace) + 1) \notin {"", ";"}

\* The end of a section at the head of s,
\*   /^(;{3,level} .*:|\s*[^;\s])/m
\* a line of 3 to level semicolons, a space and a colon further on, or
\* white space (newlines too) and then a character that is not a semicolon.
SectionEndAt(s, level) ==
  LET semis == Span(s, {";"})
      line == SubSeq(s, 1, SpanNot(s, {"\n"}))
  IN \/ /\ semis >= 3
        /\ semis <= level
        /\ Ch(s, semis + 1) = " "
        /\ \E i \in (semis + 2)..Len(line) : Ch(line, i) = ":"
     \/ Ch(s, Span(s, Whitespace) + 1) \notin {"", ";"}

\* str.replace(/\n;+ ?/g, '\n')
RECURSIVE StripComments(_)
StripComments(str) ==
  IF Len(str) = 0 THEN ""
  ELSE IF Head(str) = "\n" /\ Ch(str, 2) = ";"
    THEN LET semis == Span(Tail(str), {";"})
             space == IF Ch(str, semis + 2) = " " THEN 1 ELSE 0
         IN "\n" \o StripComments(From(str, semis + space + 2))
  ELSE Head(str) \o StripComments(Tail(str))

\* getSection(elisp, /commentary|documentation/): null without a section,
\* else the text from the opening to the first end, without its comment
\* characters and trimmed.
SectionResult(rest, startMatch, ends) ==
  IF ends = {}
    THEN Throw("SyntaxError", "Unterminated section: " \o startMatch.name)
  ELSE Value(JSString(Trim(StripComments(SubSeq(rest, 1, MinOf(ends) - 1)))))

SectionEnds(rest, startMatch) ==
  SectionResult(rest, startMatch,
    {p \in LineStarts(rest) : SectionEndAt(From(rest, p), startMatch.level)})

SectionRest(s, startMatch) ==
  SectionEnds(From(s, startMatch.length + 1), startMatch)

SectionStarts(elisp, starts) ==
  IF starts = {} THEN Value(JSNull)
  ELSE SectionRest(From(elisp, MinOf(starts)),
                   SectionStartAt(From(elisp, MinOf(starts))))

getSection(elisp) ==
  SectionStarts(elisp,
    {p \in LineStarts(elisp) : SectionStartAt(From(elisp, p)).ok})

\* a choice of the headers that prefers Version
VersionHeader_VersionFirst(headers) ==
  IF "version" \in DOMAIN headers THEN <<headers["version"]>>
  ELSE IF "package-version" \in DOMAIN headers
    THEN <<headers["package-version"]>>
  ELSE <<>>

\* headers["package-version"] || headers["version"], as a sequence of
\* length 0 (undefined) or 1
VersionHeader(headers) ==
  IF "package-version" \in DOMAIN headers THEN <<headers["package-version"]>>
  ELSE IF "version" \in DOMAIN headers THEN <<headers["version"]>>
  ELSE <<>>

NoVersionMessage ==
  "Package does not have a \"Version\" or \"Package-Version\" header"

\* parseElisp once the markers are found: the headers, the version, the
\* commentary and the requirements, in the order of the code.
ParseResult(filename, desc, headers, commentary, requires, version) ==
  IF commentary.threw THEN commentary
  ELSE IF requires.threw THEN requires
  ELSE IF version.threw THEN version
  ELSE Value([_name |-> LowerCaseText(filename),
              name |-> filename,
              description |-> desc,
              commentary |-> commentary.value,
              headers |-> headers,
              requires |-> requires.value,
              version |-> version.value,
              type |-> "single"])

ParseHeaders(elisp, filename, desc, headers) ==
  IF VersionHeader(headers) = <<>> THEN Throw("SyntaxError", NoVersionMessage)
  ELSE ParseResult(filename, desc, headers,
         getSection(elisp),
         IF "package-requires" \in DOMAIN headers
           THEN parseRequires(headers["package-requires"])
         ELSE Value(<<>>),
         parseVersion(stripRCS(VersionHeader(headers)[1])))

ParseMarked(elisp, filename, desc) ==
  ParseHeaders(elisp, filename, desc, getHeaders(elisp))

ParseEnds(elisp, start, startMatch, ends) ==
  IF ends = {} THEN Throw("SyntaxError", "No closing comment for package")
  ELSE ParseMarked(
         Substring(elisp, start,
                   MinOf(ends) + EndMarkerAt(From(elisp, MinOf(ends)),
                                             startMatch.filename)),
         startMatch.filename, startMatch.desc)

ParseStart(elisp, start, startMatch) ==
  ParseEnds(elisp, start, startMatch,
    {p \in LineStarts(elisp) :
       EndMarkerAt(From(elisp, p), startMatch.filename) > 0})

ParseStarts(elisp, starts) ==
  IF starts = {} THEN Throw("SyntaxError", "No starting comment for package")
  ELSE ParseStart(elisp, MinOf(starts), StartMarkerAt(From(elisp, MinOf(starts))))

parseElisp(elisp) ==
  ParseStarts(elisp, {p \in LineStarts(elisp) : StartMarkerAt(From(elisp, p)).ok})

\* The single-file packages parsed: a start marker, a block of version
\* headers, a requirements header, a commentary section, a body and the end
\* marker; a text without a start marker and one without an end marker.
PackageNames == {"foo", "Foo"}
VersionBlocks ==
  {"", ";; Version: 1.2.3\n", ";; Package-Version: 2.0\n",
   ";; Version: 1.2.3\n;; Package-Version: 2.0\n",
   ";; Package-Version: 2.0\n;; Version: 1.2.3\n",
   ";; Version: $Revision: 1.2 $\n", ";; Version: 1.x\n"}
RequireBlocks ==
  {"", ";; Package-Requires: ((bar \"0.1\"))\n",
   ";; Package-Requires: ((bar 0.1))\n"}
CommentaryBlocks ==
  {"", "\n;;; Commentary:\n\n;; Hello world.\n\n",
   ";;; commentary :\n;;Hello world.\n  ;; More.\n",
   ";;;; Documentation:\n;; Hello world.\n;;\n;; More.\n;;; Code:\n;; code\n",
   ";;; Commentary:\n;; Hello world.\n;;;; Deeper:\n;;  indented\n\n;;; Code:\n"}
BodyBlocks == {"", "(provide 'foo)\n", "(provide 'foo) "}

PackageText(name, versions, requires, commentary, body) ==
  ";;; " \o name \o ".el --- A test package\n\n" \o versions \o requires
    \o commentary \o body \o ";;; " \o name \o ".el ends here"

PackageTexts ==
  {PackageText(n, v, r, c, b) :
     n \in PackageNames, v \in VersionBlocks, r \in RequireBlocks,
     c \in CommentaryBlocks, b \in BodyBlocks}
    \cup {";; Version: 1.2.3\n", ";;; foo.el --- A test package\n;; Version: 1.2.3\n"}

ParseElisp ==
  /\ Called("parseElisp")
  /\ px' = Return(px, parseElisp(px.arg))
  /\ UNCHANGED <<store, started, faults, accounts, ureqs, outbox>>

\* ---------------------------------------------------------------- parseTar_
\* what an index past the end of an array gives
JSUndefined == [t |-> "undefined"]

\* arr[i], counted from 0
Item(l, i) == IF i < Len(l) THEN l[i + 1] ELSE JSUndefined

\* the characters of a string, as _.map walks them
Chars(s) == [i \in 1..Len(s) |-> JSString(Ch(s, i))]

\* v[i] of a value that is not null: an array gives its item, a string its
\* character, anything else undefined
Index(v, i) ==
  CASE v.t = "array" -> Item(v.l, i)
    [] v.t = "string" -> Item(Chars(v.s), i)
    [] OTHER -> JSUndefined

\* a === b: values of one type that are the same
StrictEquals(a, b) == a.t = b.t /\ a = b

\* Array.prototype.toString: the texts of the items joined with commas
RECURSIVE ToText(_), JoinCommas(_)
ToText(v) ==
  CASE v.t = "string" -> v.s
    [] v.t = "array" -> JoinCommas(v.l)
    [] v.t = "number" -> number(v)
    [] v.t = "boolean" -> IF v.b THEN "true" ELSE "false"
    [] OTHER -> ""

JoinCommas(l) ==
  IF Len(l) = 0 THEN ""
  ELSE IF Len(l) = 1 THEN ToText(l[1])
  ELSE ToText(l[1]) \o "," \o JoinCommas(Tail(l))

\* v == str: a string is compared as it is, an array by its text, and a
\* number, a boolean, null and undefined never equal a text without digits
LooseEquals(v, str) ==
  CASE v.t = "string" -> v.s = str
    [] v.t = "array" -> JoinCommas(v.l) = str
    [] OTHER -> FALSE

\* parseVersion(sexp[2]): only a string has split
VersionOf(v) ==
  IF v.t = "string" THEN parseVersion(v.s)
  ELSE Throw("TypeError", "Object has no method 'split'")

\* _.map(sexp[4][1], ...): the items of an array, the characters of a
\* string, nothing of anything else
MapRequires(obj) ==
  CASE obj.t = "array" -> MapRequire(obj.l)
    [] obj.t = "string" -> MapRequire(Chars(obj.s))
    [] OTHER -> Value(<<>>)

\* The requirements of a declaration, out of sexp[4].
DeclaredRequires(sexp4) ==
  IF ~Truthy(sexp4) THEN Value(<<>>)
  ELSE IF ~LooseEquals(Index(sexp4, 0), "quote")
    THEN Throw("SyntaxError", "Requires must be quoted")
  ELSE MapRequires(Index(sexp4, 1))

\* The record of parseDeclaration; name.toLowerCase() is called last.
Declared(name, version, desc, requires) ==
  IF version.threw THEN version
  ELSE IF requires.threw THEN requires
  ELSE IF name.t # "string"
    THEN Throw("TypeError", "Object has no method 'toLowerCase'")
  ELSE Value([_name |-> LowerCaseText(name.s),
              name |-> name.s,
              description |-> desc,
              requires |-> requires.value,
              version |-> version.value,
              type |-> "tar"])

\* The test of the head of the declaration: !sexp[0] is a boolean, and it is
\* compared with a string.
NotDefinePackage(sexp0) ==
  StrictEquals(JSBoolean(~Truthy(sexp0)), JSString("define-package"))

Declaration(parsed) ==
  IF parsed.threw THEN parsed
  ELSE IF NotDefinePackage(Item(parsed.value, 0))
    THEN Throw("SyntaxError", "Expected a call to define-package")
  ELSE Declared(Item(parsed.value, 1), VersionOf(Item(parsed.value, 2)),
                Item(parsed.value, 3), DeclaredRequires(Item(parsed.value, 4)))

parseDeclaration(elisp) == Declaration(parseSexp(elisp))

\* An unpacked archive: the names of the entries of the temporary directory,
\* and the files of the first entry, each a pair of its name and its text.
Unpacked(files, inside) == [files |-> files, inside |-> inside]

\* fs.readFile of a file of the first entry
ReadFile(inside, file) ==
  IF \E e \in inside : e[1] = file
    THEN Value((CHOOSE e \in inside : e[1] = file)[2])
  ELSE Throw("Error", "ENOENT, no such file or directory '" \o file \o "'")

\* /^(.+)-([0-9.]+)$/ on the name of an entry.  No character of the second
\* group is a dash, so the dash of the match is the last one of the name.
LastDash(file) ==
  IF \E i \in 1..Len(file) : Ch(file, i) = "-"
    THEN CHOOSE i \in 1..Len(file) :
           /\ Ch(file, i) = "-"
           /\ \A j \in (i + 1)..Len(file) : Ch(file, j) # "-"
  ELSE 0

EntryMatch(file, dash) ==
  IF /\ dash >= 2
     /\ dash < Len(file)
     /\ SpanNot(file, {"\n"}) = Len(file)
     /\ Span(From(file, dash + 1), DigitChars \cup {"."}) = Len(file) - dash
    THEN [ok |-> TRUE, name |-> SubSeq(file, 1, dash - 1),
          version |-> From(file, dash + 1)]
  ELSE [ok |-> FALSE, name |-> "", version |-> ""]

\* Number.prototype.toString of an element of a version
ElementText(n) == IF n = NaN THEN "NaN" ELSE IntToString(n)

\* version.join(".")
RECURSIVE JoinDots(_)
JoinDots(version) ==
  IF Len(version) = 0 THEN ""
  ELSE IF Len(version) = 1 THEN ElementText(version[1])
  ELSE ElementText(version[1]) \o "." \o JoinDots(Tail(version))

\* The step after the three reads, when none of them failed.
CrossCheck(name, version, pkg, headers, readme) ==
  IF pkg.name # name
    THEN Throw("SyntaxError",
               "Package name \"" \o pkg.name \o "\" in " \o name
                 \o "-pkg.el doesn't match archive name \"" \o name \o "\"!")
  ELSE IF pkg.version # version
    THEN Throw("SyntaxError",
               "Package version \"" \o JoinDots(pkg.version) \o "\" in "
                 \o name \o "-pkg.el doesn't match archive version \""
                 \o JoinDots(version) \o "\"!")
  ELSE Value([_name |-> pkg._name,
              name |-> pkg.name,
              description |-> pkg.description,
              requires |-> pkg.requires,
              version |-> pkg.version,
              type |-> pkg.type,
              headers |-> headers,
              commentary |-> readme])

\* The step that follows the three groups is passed the error of the read
\* that failed last, and the three reads end in any order.
Grouped(name, version, pkg, headers, readme) ==
  IF pkg.threw \/ headers.threw
    THEN {r \in {pkg, headers} : r.threw}
  ELSE {CrossCheck(name, version, pkg.value, headers.value, readme)}

\* step(readFile, function(err, elisp) { if (err) throw err; return ... })
ReadDeclaration(file) == IF file.threw THEN file ELSE parseDeclaration(file.value)
ReadHeaders(file) == IF file.threw THEN file ELSE Value(getHeaders(file.value))
\* readmeGroup(null, readme): no error, and undefined for a missing README
ReadReadme(file) == IF file.threw THEN JSUndefined ELSE JSString(file.value)

Entered(inside, name, version) ==
  IF version.threw THEN {version}
  ELSE Grouped(name, version.value,
               ReadDeclaration(ReadFile(inside, name \o "-pkg.el")),
               ReadHeaders(ReadFile(inside, name \o ".el")),
               ReadReadme(ReadFile(inside, "README")))

Listed(inside, match) ==
  IF ~match.ok
    THEN {Throw("SyntaxError", "ELPA archives must contain exactly one "
                  \o "directory, named <package>-<version>")}
  ELSE Entered(inside, match.name, parseVersion(match.version))

\* What parseTar_ may pass to its callback for an archive that mktemp and
\* tar unpacked: an error, or the metadata.
parseTar_(tar) ==
  IF Len(tar.files) # 1
    THEN Listed(tar.inside, EntryMatch("", 0))
  ELSE Listed(tar.inside, EntryMatch(tar.files[1], LastDash(tar.files[1])))

\* The archives unpacked: up to MaxEntries entries, and inside the first
\* one a declaration, a source file and a README, each there or not.
MaxEntries == 2
EntryNames == {"foo-1.0", "foo-1.1", "bar-1.0", "foo-bar-2", "foo-1..0", "foo"}
DeclarationFiles == {"foo-pkg.el", "bar-pkg.el"}
Declarations ==
  {"(define-package \"foo\" \"1.0\" \"A package.\")",
   "(define-package \"bar\" \"1.0\" \"A package.\")",
   "(define-package \"foo\" \"1.1\" \"A package.\")",
   "(define-package \"bar\" \"1.1\" \"A package.\" nil)",
   "(define-package \"foo\" \"1.0\" \"A package.\" (quote ((baz \"0.1\"))))",
   "(define-package \"foo\" \"1.1\" \"A package.\" '((baz \"0.1\")))",
   "(define-package \"foo\" \"1.x\")",
   "(define-package foo)",
   "(defun \"foo\" \"1.0\" \"A package.\")",
   "(define-package \"foo\" \"1.0\nbeta\" \"A package.\")",
   "(define-package \"foo\" \"1.0\n\" \"A package.\")",
   "(define-package \"foo\" \"1.0\" \"A package.\" (quote ((baz \"1\nbeta\"))))"}
SourceFiles == {{}, {<<"foo.el", ";; Version: 1.0\n;; Author: A">>}}
ReadmeFiles == {{}, {<<"README", "Hello world.">>}}
Archives ==
  {Unpacked(files, {<<d, decl>>} \cup source \cup readme) :
     files \in SeqsUpTo(EntryNames, MaxEntries),
     d \in DeclarationFiles, decl \in Declarations,
     source \in SourceFiles, readme \in ReadmeFiles}
    \cup {Unpacked(files, {}) : files \in SeqsUpTo(EntryNames, MaxEntries)}

ParseTar ==
  /\ Called("parseTar_")
  /\ \E out \in parseTar_(px.arg) : px' = Return(px, out)
  /\ UNCHANGED <<store, started, faults, accounts, ureqs, outbox>>

\* ------------------------------------------------ sexpParser.parse of lists
\* The texts of single expressions that the token rules of the parser take:
\* a symbol, strings (the empty one included), numbers with a decimal point
\* (zero included), lists; and # , which no token rule takes.
ExpTexts == {"a", "\"\"", "\"x y\"", "0.0", "1.5", "(b)", "()"}
BadTexts == {"#"}

RECURSIVE JoinSpaces(_)
JoinSpaces(texts) ==
  IF Len(texts) = 0 THEN ""
  ELSE IF Len(texts) = 1 THEN texts[1]
  ELSE texts[1] \o " " \o JoinSpaces(Tail(texts))

\* the text of a list of the given expressions, its closing paren left out
\* when the list is unterminated
ListText(l) ==
  "(" \o JoinSpaces(l.items) \o (IF l.closed THEN ")" ELSE "")

ListInputs ==
  [items : SeqsUpTo(ExpTexts \cup BadTexts, MaxItems), closed : BOOLEAN]

\* sexpParser.parse(text) of the text of a list
Parse ==
  /\ Called("parse")
  /\ px' = Return(px, parse(ListText(px.arg)))
  /\ UNCHANGED <<store, started, faults, accounts, ureqs, outbox>>

\* ------------------------------------------------------------ parseVersion
\* Version strings: numbers separated by dots, an empty one, empty pieces,
\* letters, and texts of more than one line.
VersionStrings ==
  {"1", "1.0", "0.10.2", "", "1.", ".1", "1..0", "1.x", "beta", "1.0 ",
   "1.0\nbeta", "beta\n1", "1.0\n", "1\n2"}

ParseVersion ==
  /\ Called("parseVersion")
  /\ px' = Return(px, parseVersion(px.arg))
  /\ UNCHANGED <<store, started, faults, accounts, ureqs, outbox>>

\* ------------------------------------------------- parseTar_ step by step
\* A call of parseTar_ in flight: the step it waits in, whether tmpDir is
\* set, name and version once the entry is matched, the counters of the
\* three groups and of the step that holds them, the error and the results
\* passed on to the next step, what became of rm -rf, and the calls of
\* the callback with what it was last passed.
\* The record also holds what the pure functions give for the archive,
\* worked out once: the match of the entry, the version of its name, and
\* what the second step of each read passes to its group.
Unpacking(tar, entry) ==
  [fn |-> "extract", pc |-> "mktemp", arg |-> tar, tmpDir |-> FALSE,
   entry |-> entry,
   parsed |-> parseVersion(entry.version),
   reads |-> [pkg |-> ReadDeclaration(
                        ReadFile(tar.inside, entry.name \o "-pkg.el")),
              headers |-> ReadHeaders(
                            ReadFile(tar.inside, entry.name \o ".el")),
              readme |-> Value(ReadReadme(ReadFile(tar.inside, "README")))],
   calledTwice |-> ReadFile(tar.inside, "README").threw,
   name |-> "", version |-> <<>>,
   todo |-> {"pkg", "headers", "readme"},
   groups |-> [pkg |-> 1, headers |-> 1, readme |-> 1], pending |-> 3,
   err |-> <<>>, got |-> [pkg |-> <<>>, headers |-> <<>>, readme |-> <<>>],
   rm |-> "none", calls |-> 0, out |-> <<>>]

Extraction(tar) ==
  IF Len(tar.files) # 1 THEN Unpacking(tar, EntryMatch("", 0))
  ELSE Unpacking(tar, EntryMatch(tar.files[1], LastDash(tar.files[1])))

Extracting(pc) == px.fn = "extract" /\ px.pc = pc

\* rm -rf started only where the last step would return the record
Cleanup_OnlyOnSuccess(tmpDir, result) ==
  IF tmpDir /\ ~result.threw THEN "issued" ELSE "none"

\* if (tmpDir) util.run("rm", ["-rf", tmpDir], function(){})
Cleanup(tmpDir, result) == IF tmpDir THEN "issued" ELSE "none"

\* The last step and the callback.  An error thrown by a step is passed
\* from step to step, each of which throws it again, down to the last.
Finish(p, result) ==
  [p EXCEPT !.pc = "done", !.rm = Cleanup(p.tmpDir, result),
            !.calls = @ + 1, !.out = <<result>>]

\* function(err, pkg_, headers, readme)
Checked(p) ==
  IF p.err # <<>> THEN p.err[1]
  ELSE CrossCheck(p.name, p.version,
                  p.got.pkg[1], p.got.headers[1], p.got.readme[1])

\* The callback that this.group() registers with the step: the error of a
\* group replaces the one kept, and the next step runs when none is pending.
AfterReads(p) == IF p.pending = 0 THEN Finish(p, Checked(p)) ELSE p

ParallelCallback(p, g, res) ==
  AfterReads([p EXCEPT !.pending = @ - 1,
                       !.err = IF res.threw THEN <<res>> ELSE @,
                       !.got[g] = IF res.threw THEN @ ELSE <<res.value>>])

\* One call of pkgGroup, headerGroup or readmeGroup: the group passes its
\* result on when its own counter falls to 0.
GroupCallback(p, g, res) ==
  IF p.groups[g] = 1
    THEN ParallelCallback([p EXCEPT !.groups[g] = @ - 1], g, res)
  ELSE [p EXCEPT !.groups[g] = @ - 1]

\* function(err, files)
ListedStep(p) ==
  IF ~p.entry.ok
    THEN Finish(p, Throw("SyntaxError",
                         "ELPA archives must contain exactly one "
                           \o "directory, named <package>-<version>"))
  ELSE IF p.parsed.threw THEN Finish(p, p.parsed)
  ELSE [p EXCEPT !.pc = "reading", !.name = p.entry.name,
                 !.version = p.parsed.value]

\* util.run passes an error when the process ends with another code than 0
ProcessError(command) ==
  Throw("Error", "Process " \o command \o " terminated unexpectedly.")

Mktemp ==
  /\ Extracting("mktemp")
  /\ \/ px' = [px EXCEPT !.tmpDir = TRUE, !.pc = "untar"]
     \/ px' = Finish(px, ProcessError("mktemp"))
  /\ UNCHANGED <<store, started, faults, accounts, ureqs, outbox>>

GetTar ==
  /\ Extracting("untar")
  /\ \/ px' = [px EXCEPT !.pc = "readdir"]
     \/ px' = Finish(px, ProcessError("tar"))
  /\ UNCHANGED <<store, started, faults, accounts, ureqs, outbox>>

Readdir ==
  /\ Extracting("readdir")
  /\ \/ px' = ListedStep(px)
     \/ px' = Finish(px, Throw("Error", "EMFILE, too many open files"))
  /\ UNCHANGED <<store, started, faults, accounts, ureqs, outbox>>

Reading(g) == Extracting("reading") /\ g \in px.todo

ReadPkgFile ==
  /\ Reading("pkg")
  /\ px' = GroupCallback([px EXCEPT !.todo = @ \ {"pkg"}], "pkg",
                         px.reads.pkg)
  /\ UNCHANGED <<store, started, faults, accounts, ureqs, outbox>>

ReadSourceFile ==
  /\ Reading("headers")
  /\ px' = GroupCallback([px EXCEPT !.todo = @ \ {"headers"}], "headers",
                         px.reads.headers)
  /\ UNCHANGED <<store, started, faults, accounts, ureqs, outbox>>

\* if (err) readmeGroup(); readmeGroup(null, readme);
ReadReadmeFile ==
  /\ Reading("readme")
  /\ px' = IF px.calledTwice
             THEN GroupCallback(
                    GroupCallback([px EXCEPT !.todo = @ \ {"readme"}],
                                  "readme", Value(JSUndefined)),
                    "readme", px.reads.readme)
           ELSE GroupCallback([px EXCEPT !.todo = @ \ {"readme"}], "readme",
                              px.reads.readme)
  /\ UNCHANGED <<store, started, faults, accounts, ureqs, outbox>>

\* rm -rf ends, with the code 0 or another: function(){} takes no notice
RmExit ==
  /\ px.fn = "extract"
  /\ px.rm = "issued"
  /\ \E end \in {"removed", "failed"} : px' = [px EXCEPT !.rm = end]
  /\ UNCHANGED <<store, started, faults, accounts, ureqs, outbox>>

\* The archives extracted step by step: those of at most one entry.
TarInit ==
  /\ Quiet
  /\ \E tar \in {a \in Archives : Len(a.files) <= 1} : px = Extraction(tar)

TarNext ==
  \/ Mktemp
  \/ GetTar
  \/ Readdir
  \/ ReadPkgFile
  \/ ReadSourceFile
  \/ ReadReadmeFile
  \/ RmExit

TarSpec == TarInit /\ [][TarNext]_vars

\* Every process started and every read started ends.
TarLive == TarSpec /\ WF_vars(TarNext)

\* --------------------------------------------------------- POST /v1/packages
\* The constructor that made an error.  packageParser and sexpParser each
\* make a class of their own named SyntaxError: parseElisp, parseDeclaration
\* and parseTar_ throw the one of packageParser, and parseSexp catches the
\* one of sexpParser and throws the one of packageParser in its place.
Constructor(e) ==
  CASE e = SyntaxError -> "packageParser.SyntaxError"
    [] e = PermissionsError -> "backend.PermissionsError"
    [] ErrorClass(e) = "InputError" -> "backend.InputError"
    [] OTHER -> "Error"

\* The last step of the route, and the error handlers of the app after it:
\* an HttpError is sent with its code, an InputError becomes an HttpError of
\* code 400, any other error is left to the server.
ResponseStatus(err) ==
  IF err = NoErr THEN 200
  ELSE IF Constructor(err) = "sexpParser.SyntaxError" THEN 400
  ELSE IF Constructor(err) = "backend.PermissionsError" THEN 403
  ELSE IF Constructor(err) = "backend.InputError" THEN 400
  ELSE 500

\* The answer to a POST whose save is over.  The route passes the step that
\* answers as the callback of saveElispFile or saveTarFile: it answers when
\* that is called, and nothing answers (0) when the save throws its error
\* where no step is left.
PostPackages(q) == IF q.cbCount = 0 THEN 0 ELSE ResponseStatus(q.cbErr)

\* ------------------------------------------------------------ lib/stream.js
\* An event that a stream emits: its name and what its listeners are passed.
Event(name, arg) == [name |-> name, arg |-> arg]

\* The documents that a collection or a stream holds.
MaxDocs == 3
Docs == {"a", "b"}
DocLists == SeqsUpTo(Docs, MaxDocs)

\* stream.all(be.packageStream(...), callback): the documents the cursor
\* will give, how many it has given, the events emitted, the arrays that
\* the data listener of all fills, and the calls of the callback.
AllOver(docs) ==
  [fn |-> "all", pc |-> "find", docs |-> docs, pos |-> 0, emitted |-> <<>>,
   resultses |-> <<>>, calls |-> 0, cbErr |-> <<>>, cbArgs |-> <<>>]

\* The data listener of all: one array for each argument of the first data
\* event, and each argument pushed on its array.
AllData(p, obj) ==
  [p EXCEPT !.resultses = IF Len(@) = 0 THEN <<<<obj>>>>
                          ELSE <<Append(@[1], obj)>>]

\* stream.emit(name, arg) on a stream that all listens to: all listens to
\* data, end and error, and an event of another name has no listener.
EmitToAll(p, name, arg) ==
  CASE name = "data" -> AllData([p EXCEPT !.emitted = Append(@, Event(name, arg))], arg)
    [] name = "end" ->
         [p EXCEPT !.emitted = Append(@, Event(name, arg)),
                   !.calls = @ + 1, !.cbArgs = p.resultses]
    [] name = "error" ->
         [p EXCEPT !.emitted = Append(@, Event(name, arg)),
                   !.calls = @ + 1, !.cbErr = <<arg>>]
    [] OTHER -> [p EXCEPT !.emitted = Append(@, Event(name, arg))]

\* collection.find calls back with a cursor or with an error
Find ==
  /\ px.fn = "all" /\ px.pc = "find"
  /\ \/ px' = [px EXCEPT !.pc = "next"]
     \/ px' = [EmitToAll(px, "err", StorageError) EXCEPT !.pc = "stopped"]
  /\ UNCHANGED <<store, started, faults, accounts, ureqs, outbox>>

\* handler(err, obj): an error, null after the last document, or a
\* document, after which the next one is asked for
NextObject ==
  /\ px.fn = "all" /\ px.pc = "next"
  /\ \/ px' = [EmitToAll(px, "err", StorageError) EXCEPT !.pc = "stopped"]
     \/ /\ px.pos = Len(px.docs)
        /\ px' = [EmitToAll(px, "end", "") EXCEPT !.pc = "stopped"]
     \/ /\ px.pos < Len(px.docs)
        /\ px' = [EmitToAll(px, "data", px.docs[px.pos + 1])
                    EXCEPT !.pos = @ + 1]
  /\ UNCHANGED <<store, started, faults, accounts, ureqs, outbox>>

\* stream.limit(stream, n) over a stream that holds docs, emits error on a
\* failure and has pause and resume: the elements the stream has emitted,
\* whether it is paused and how often pause was called, the counter i of
\* limit, and the events that the view has emitted.
LimitOver(docs, n) ==
  [fn |-> "limit", pc |-> "open", docs |-> docs, pos |-> 0, n |-> n, i |-> 0,
   paused |-> FALSE, pauses |-> 0, out |-> <<>>]

\* The function that limit gives to filter, up to i += 1.
LimitTest(p) ==
  IF p.i = p.n
    THEN [p EXCEPT !.paused = TRUE, !.pauses = @ + 1,
                   !.out = Append(@, Event("end", "")), !.i = @ + 1]
  ELSE [p EXCEPT !.i = @ + 1]

\* The data listener of filter, with return i <= n as its test.
FilterData(p, obj) ==
  IF p.i <= p.n THEN [p EXCEPT !.out = Append(@, Event("data", obj))] ELSE p

\* the stream emits its next element
StreamData ==
  /\ px.fn = "limit" /\ px.pc = "open" /\ ~px.paused
  /\ px.pos < Len(px.docs)
  /\ px' = FilterData(LimitTest([px EXCEPT !.pos = @ + 1]),
                      px.docs[px.pos + 1])
  /\ UNCHANGED <<store, started, faults, accounts, ureqs, outbox>>

\* the stream ends: the end listener of view emits end
StreamEnd ==
  /\ px.fn = "limit" /\ px.pc = "open" /\ ~px.paused
  /\ px.pos = Len(px.docs)
  /\ px' = [px EXCEPT !.pc = "closed", !.out = Append(@, Event("end", ""))]
  /\ UNCHANGED <<store, started, faults, accounts, ureqs, outbox>>

\* the stream fails: the error listener of view emits the error
StreamError ==
  /\ px.fn = "limit" /\ px.pc = "open" /\ ~px.paused
  /\ px' = [px EXCEPT !.pc = "closed",
                      !.out = Append(@, Event("error", StorageError))]
  /\ UNCHANGED <<store, started, faults, accounts, ureqs, outbox>>

\* newStream.resume(), which is stream.resume bound to the stream
Resume ==
  /\ px.fn = "limit" /\ px.pc = "open" /\ px.paused
  /\ px' = [px EXCEPT !.paused = FALSE]
  /\ UNCHANGED <<store, started, faults, accounts, ureqs, outbox>>

StreamInit ==
  /\ Quiet
  /\ \/ \E docs \in DocLists : px = AllOver(docs)
     \/ \E docs \in DocLists, n \in 0..MaxDocs : px = LimitOver(docs, n)

StreamNext ==
  \/ Find
  \/ NextObject
  \/ StreamData
  \/ StreamEnd
  \/ StreamError
  \/ Resume

StreamSpec == StreamInit /\ [][StreamNext]_vars

ParserInit ==
  /\ Quiet
  /\ \/ \E v \in SexpValues : px = Call("roundTrip", v)
     \/ \E l \in ListInputs : px = Call("parse", l)
     \/ \E str \in VersionStrings : px = Call("parseVersion", str)
     \/ \E a, b, c \in OrderVersions : px = Call("versionOrder", <<a, b, c>>)
     \/ \E elisp \in HeaderTexts : px = Call("getHeaders", elisp)
     \/ \E elisp \in PackageTexts : px = Call("parseElisp", elisp)
     \/ \E tar \in Archives : px = Call("parseTar_", tar)

ParserNext ==
  \/ RoundTrip
  \/ Parse
  \/ ParseVersion
  \/ CompareVersions
  \/ GetHeaders
  \/ ParseElisp
  \/ ParseTar

ParserSpec == ParserInit /\ [][ParserNext]_vars

\* ------------------------------------------------------------ specification
Next ==
  \/ \E r \in ReqIds : CallSaveElisp(r)
  \/ \E r \in ReqIds : CallSaveElispFile(r)
  \/ \E r \in ReqIds : CallSaveTarball(r)
  \/ \E r \in ReqIds : CallSaveTarFile(r)
  \/ \E r \in ReqIds : CallSavePackage(r)
  \/ \E r \in ReqIds : CallLoadPackage(r)
  \/ \E r \in ReqIds : InsertPackage(r)
  \/ \E r \in ReqIds : UpdateUser(r)
  \/ \E r \in ReqIds : InsertVersion(r)
  \/ \E r \in ReqIds : WriteBlob(r)
  \/ \E r \in ReqIds : ReadBlob(r)
  \/ \E r \in ReqIds : HandleLoadError(r)

Spec == Init /\ [][Next]_vars

TypeOK ==
  /\ started \in 0..MaxOps
  /\ faults \in 0..MaxFaults
  /\ \A r \in ReqIds : reqs[r].cbCount \in 0..2


\* ============================================================== properties
Done(q) == q.pc = "done"

PackageDoc(key) == FindOne(packages, LAMBDA d : d._name = key)

PackageExists(key) == Len(PackageDoc(key)) > 0

RowsOf(key) == {i \in 1..Len(packageVersions) : packageVersions[i]._name = key}

Quiescent == \A r \in ReqIds : reqs[r].pc \in {"idle", "done"}

\* The save found the package and the calling user is not one of its owners.
ByNonOwner(q) ==
  /\ IsSave(q) /\ q.found
  /\ ~Include(q.oldPkg[1].owners, q.uploader)

\* C1 -- Ownership gate: a save of an existing package by a user who is not
\* one of its owners, through any of the public save operations, reports a
\* PermissionsError to the caller and writes nothing.
C1_OwnershipGate ==
  \A r \in ReqIds :
    (Done(reqs[r]) /\ ByNonOwner(reqs[r]))
      => /\ reqs[r].cbCount = 1
         /\ reqs[r].cbErr = PermissionsError
         /\ reqs[r].writes = 0

\* The save was let through the ownership check of an existing package and
\* its insert was refused because the (key, version) is already stored.
RejectedDuplicate(q) ==
  /\ IsSave(q) /\ q.found
  /\ Include(q.oldPkg[1].owners, UserKey(q.user))
  /\ q.spRes = DuplicateVersionError

\* C2 -- Duplicate version rejection: the second save of a (key, version) by
\* an owner fails with an InputError, and the stored row stays as it was.
C2_DuplicateIsInputError ==
  \A r \in ReqIds :
    RejectedDuplicate(reqs[r])
      => /\ ErrorClass(reqs[r].spRes) = "InputError"
         /\ reqs[r].writes = 0
         /\ Cardinality({i \in RowsOf(toLowerCase(reqs[r].name)) :
                           packageVersions[i].version = reqs[r].version}) = 1

\* The save protocol created the package for user object q.user and succeeded.
Bootstrapped(q) ==
  /\ IsSave(q) /\ q.spRes = "ok" /\ ~q.found /\ q.user \in Users

\* The save protocol found the package, and the user it was given is not
\* among the owners.
Refused(q) ==
  /\ IsSave(q) /\ q.found
  /\ ~Include(q.oldPkg[1].owners, UserKey(q.user))

C4_ExactlyOneCallback ==
  \A r \in ReqIds :
    /\ reqs[r].cbCount <= 1
    /\ Done(reqs[r]) => (reqs[r].cbCount = 1 /\ reqs[r].uncaught = NoErr)

\* The insert of the save was carried out by the store (it succeeded or was
\* refused by the unique index), and no row of its (key, version) was stored
\* when the save was called.
RacedInsert(q) ==
  /\ IsSave(q) /\ q.fresh
  /\ q.spRes \in {"ok", DuplicateVersionError}

SameVersion(q1, q2) ==
  /\ toLowerCase(q1.name) = toLowerCase(q2.name)
  /\ q1.version = q2.version

RECURSIVE VersionLeq(_, _)
VersionLeq(v1, v2) ==
  IF Len(v1) = 0 THEN TRUE
  ELSE IF Len(v2) = 0 THEN FALSE
  ELSE IF v1[1] # v2[1] THEN v1[1] < v2[1]
  ELSE VersionLeq(Tail(v1), Tail(v2))

\* C7 -- latestVersion is maximal: in every reachable state the latest
\* version recorded for a key is greater than or equal to every stored version
\* of that key, whatever the order of the uploads.
C7_LatestIsMax ==
  \A k \in Keys :
    \A i \in RowsOf(k) : VersionLeq(packageVersions[i].version, latestVersion[k])

Owns(u, k) == PackageExists(k) /\ Include(PackageDoc(k)[1].owners, u)

Lists(u, k) == Include(users[u].packages, k)

MissedLoad(q) ==
  /\ q.op = "loadPackage" /\ Done(q) /\ ~q.found /\ faults = 0

\* C9 -- Load-error specificity: a load of a key that has no stored version
\* reports a LoadError saying that the package does not exist, a load of a
\* version that is not stored for a key that has versions reports a LoadError
\* naming the most recent version, and nothing else is reported or thrown.
C9_LoadErrorSpecific ==
  \A r \in ReqIds :
    MissedLoad(reqs[r])
      => /\ reqs[r].cbCount = 1
         /\ reqs[r].uncaught = NoErr
         /\ reqs[r].cbErr = IF reqs[r].keyStored THEN LoadErrorNoVersion
                            ELSE LoadErrorNoPackage

\* A load of the name, version and kind of a save that has reported success,
\* no storage call having failed.
LoadAfterSave(q) ==
  /\ q.op = "loadPackage" /\ Done(q) /\ q.expect # 0 /\ faults = 0

\* C10 -- Save/load round trip: after a successful save of bytes B, a load
\* with the same name, version and kind returns exactly B.
C10_RoundTrip ==
  \A r \in ReqIds :
    LoadAfterSave(reqs[r])
      => /\ reqs[r].cbCount = 1
         /\ reqs[r].cbErr = NoErr
         /\ reqs[r].cbData = reqs[r].expect

\* ------------------------------------------- properties of user operations
\* A user operation of the given name has finished, no call having failed.
Finished(q, op) == q.op = op /\ q.pc = "done" /\ faults = 0

AccountsOf(key) == {i \in 1..Len(accounts) : accounts[i]._name = key}

\* C11 -- registerUser: a registration with an empty name, a password shorter
\* than six characters, an email without @ or a name whose key is taken
\* reports the InputError of that rule and creates no user; every other
\* registration creates exactly one user of the lowercased name, and a
\* registration that fails (as the loser of two concurrent registrations of
\* one name does) fails with an InputError.
C11_RegisterUser ==
  \A r \in ReqIds :
    LET q == ureqs[r] IN
    Finished(q, "registerUser")
      => /\ q.cbCount = 1
         /\ q.invalid # NoErr => (q.cbErr = q.invalid /\ q.cbUser = <<>>)
         /\ (q.invalid = NoErr /\ q.taken) => q.cbErr = InputErrorExists
         /\ q.cbErr # NoErr => ErrorClass(q.cbErr) = "InputError"
         /\ q.cbErr = NoErr
              => Cardinality(AccountsOf(toLowerCase(q.name))) = 1

\* The name and token given to loadUserWithToken are those of a stored user.
TokenMatches(q) == Len(q.user) > 0 /\ q.user[1].token = q.token

\* C12 -- loadUserWithToken: the user is returned only when a user of the
\* lowercased name is stored and its token equals the given one; on every
\* mismatch, an unknown name included, the operation fails with an
\* InputError, the same for both.
C12_TokenMismatchIsInputError ==
  \A r \in ReqIds :
    LET q == ureqs[r] IN
    Finished(q, "loadUserWithToken")
      => /\ q.cbCount = 1
         /\ IF TokenMatches(q)
              THEN q.cbErr = NoErr /\ q.cbUser = q.user
              ELSE ErrorClass(q.cbErr) = "InputError" /\ q.cbUser = <<>>

\* C13 -- resetPassword of a registered user: it succeeds, the digest stored
\* for the user is the salted hash of the generated password, and the email
\* sent to the user's address carries that password.
C13_ResetPassword ==
  \A r \in ReqIds :
    LET q == ureqs[r]
        stored == FindAccount(toLowerCase(q.name))
    IN (Finished(q, "resetPassword") /\ Len(q.user) > 0)
         => /\ q.cbCount = 1 /\ q.cbErr = NoErr
            /\ stored[1].digest = hashPassword(q.password, stored[1].salt)
            /\ \E i \in 1..Len(outbox) :
                 /\ outbox[i].to = stored[1].email
                 /\ outbox[i].password = q.password

\* C14 -- resetPassword of a name that is not registered fails with an
\* InputError (a 400 response), and no email is sent.
C14_ResetUnknownUser ==
  \A r \in ReqIds :
    LET q == ureqs[r] IN
    (Finished(q, "resetPassword") /\ Len(q.user) = 0)
      => /\ q.cbCount = 1
         /\ ErrorClass(q.cbErr) = "InputError"
         /\ outbox = <<>>

\* ------------------------------------------------ properties of the parsers
\* A parsed value is equivalent to the value serialized: a boolean reads as
\* the symbol t or nil, a list as the list of the equivalent items.
RECURSIVE Equivalent(_, _)
Equivalent(value, parsed) ==
  CASE value.t = "boolean" -> parsed = JSString(bool(value.b))
    [] value.t = "array" ->
         /\ parsed.t = "array"
         /\ Len(parsed.l) = Len(value.l)
         /\ \A i \in 1..Len(value.l) : Equivalent(value.l[i], parsed.l[i])
    [] OTHER -> parsed = value

\* C15 -- s-expression round trip: for every value built from lists,
\* strings, numbers (integers included) and booleans, parsing the serialized
\* value does not fail and yields an equivalent value.
C15_RoundTrip ==
  Returned("roundTrip") =>
    /\ ~px.out.err
    /\ Equivalent(px.arg, px.out.val)

\* v1 <= v2 element by element: v1 is a prefix of v2, or is smaller at the
\* first place where they differ.
ElementwiseLeq(v1, v2) ==
  \/ /\ Len(v1) <= Len(v2)
     /\ \A i \in 1..Len(v1) : v1[i] = v2[i]
  \/ \E k \in 1..Len(v1) :
       /\ k <= Len(v2)
       /\ v1[k] < v2[k]
       /\ \A i \in 1..(k - 1) : v1[i] = v2[i]

Occurrences(lines, k) ==
  {i \in 1..Len(lines) :
     /\ HeaderMatch(lines[i]).ok
     /\ LowerCaseText(HeaderMatch(lines[i]).name) = k
     /\ HeaderMatch(lines[i]).val # ""}

\* The commentary rule, line by line.  A section marker is a line of three
\* or more semicolons, a space and a colon further on; its depth is the
\* number of its semicolons.  Code is a line whose first character that is
\* not white space is not a semicolon.
IsMarker(line, depth) ==
  /\ Span(line, {";"}) \in 3..depth
  /\ Ch(line, Span(line, {";"}) + 1) = " "
  /\ \E i \in 1..Len(line) : i > Span(line, {";"}) + 1 /\ Ch(line, i) = ":"

IsCode(line) == Ch(line, Span(line, Whitespace) + 1) \notin {"", ";"}

\* a line without its leading semicolons and the space after them
StripLead(line) ==
  IF Span(line, {";"}) = 0 THEN line
  ELSE IF Ch(line, Span(line, {";"}) + 1) = " "
    THEN From(line, Span(line, {";"}) + 2)
  ELSE From(line, Span(line, {";"}) + 1)

\* the lines that open a commentary section, and the lines that end the
\* section opened at line o
Openings(lines) == {i \in 1..Len(lines) : SectionStartAt(lines[i]).ok}
Endings(lines, o) ==
  {i \in (o + 1)..Len(lines) :
     IsMarker(lines[i], SectionStartAt(lines[o]).level) \/ IsCode(lines[i])}

\* the rule has a section to speak of: an opening and an end after it
RuleApplies(lines) ==
  Openings(lines) # {} /\ Endings(lines, MinOf(Openings(lines))) # {}

RuleCommentary(lines) ==
  LET o == MinOf(Openings(lines))
      e == MinOf(Endings(lines, o))
  IN Trim(JoinLines([i \in 1..(e - o - 1) |-> StripLead(lines[o + i])]))

\* the package of the example
ExamplePackage ==
  PackageText("foo", ";; Version: 1.2.3\n",
              ";; Package-Requires: ((bar \"0.1\"))\n",
              "\n;;; Commentary:\n\n;; Hello world.\n\n", "(provide 'foo)\n")

Contains(s, sub) ==
  \E i \in 1..Len(s) :
    i + Len(sub) - 1 <= Len(s) /\ SubSeq(s, i, i + Len(sub) - 1) = sub

\* the text has a start marker and the end marker of its file name
HasMarkers(elisp) ==
  \E p \in LineStarts(elisp) :
    /\ StartMarkerAt(From(elisp, p)).ok
    /\ \E e \in LineStarts(elisp) :
         EndMarkerAt(From(elisp, e), StartMarkerAt(From(elisp, p)).filename) > 0

\* C18 -- missing version header: a single-file package with both markers
\* and neither a Version nor a Package-Version header fails with a
\* SyntaxError whose message names both headers; a package with both headers
\* that is parsed has the version of its Package-Version header.
C18_MissingVersion ==
  Returned("parseElisp") =>
    LET lines == SplitLines(px.arg) IN
    /\ ( /\ HasMarkers(px.arg)
         /\ Occurrences(lines, "version") = {}
         /\ Occurrences(lines, "package-version") = {} ) =>
         /\ px.out.threw
         /\ px.out.error.class = "SyntaxError"
         /\ Contains(px.out.error.message, "\"Version\"")
         /\ Contains(px.out.error.message, "\"Package-Version\"")
    /\ ( /\ Occurrences(lines, "version") # {}
         /\ Occurrences(lines, "package-version") # {}
         /\ ~px.out.threw ) =>
         \E i \in Occurrences(lines, "package-version") :
           px.out.value.version
             = parseVersion(stripRCS(HeaderMatch(lines[i]).val)).value

C18_Witness ==
  /\ Returned("parseElisp")
  /\ HasMarkers(px.arg)
  /\ Occurrences(SplitLines(px.arg), "version") = {}
  /\ Occurrences(SplitLines(px.arg), "package-version") = {}
  /\ px.out.threw
  /\ px.out.error.message = NoVersionMessage

\* a package with both headers is parsed, and has the Package-Version value
BothHeadersParsed ==
  /\ Returned("parseElisp")
  /\ Occurrences(SplitLines(px.arg), "version") # {}
  /\ Occurrences(SplitLines(px.arg), "package-version") # {}
  /\ ~px.out.threw
  /\ px.out.value.version = <<2, 0>>

\* C19 -- header scanning: the mapping has lowercased keys, one for each
\* header that has a value, no value is the empty string, and a header that
\* occurs on several lines has the value of its first occurrence.
C19_FirstOccurrenceWins ==
  Returned("getHeaders") =>
    LET lines == SplitLines(px.arg)
        headers == px.out
    IN /\ \A k \in DOMAIN headers : k = LowerCaseText(k) /\ headers[k] # ""
       /\ DOMAIN headers =
            {LowerCaseText(HeaderMatch(lines[i]).name) :
               i \in {j \in 1..Len(lines) :
                        HeaderMatch(lines[j]).ok /\ HeaderMatch(lines[j]).val # ""}}
       /\ \A k \in DOMAIN headers :
            \A i \in Occurrences(lines, k) :
              (\A j \in Occurrences(lines, k) : i <= j) =>
                headers[k] = HeaderMatch(lines[i]).val

\* the pieces of a text between its double quotes: the even ones are the
\* strings written in it
RECURSIVE SplitQuotes(_)
SplitQuotes(str) ==
  LET n == SpanNot(str, {"\""}) IN
  IF n = Len(str) THEN <<str>>
  ELSE <<SubSeq(str, 1, n)>> \o SplitQuotes(From(str, n + 2))

\* the archive of the call has one entry, named <name>-<version>
OneEntry(tar) ==
  /\ Len(tar.files) = 1
  /\ EntryMatch(tar.files[1], LastDash(tar.files[1])).ok
  /\ ~parseVersion(EntryMatch(tar.files[1], LastDash(tar.files[1])).version).threw

ArchiveName(tar) == EntryMatch(tar.files[1], LastDash(tar.files[1])).name
ArchiveVersion(tar) ==
  parseVersion(EntryMatch(tar.files[1], LastDash(tar.files[1])).version).value

\* <name>-pkg.el is in the archive and its first two strings are a name and
\* a version
Declares(tar) ==
  /\ \E e \in tar.inside : e[1] = ArchiveName(tar) \o "-pkg.el"
  /\ LET decl == ReadFile(tar.inside, ArchiveName(tar) \o "-pkg.el").value IN
     /\ Len(SplitQuotes(decl)) >= 5
     /\ ~parseVersion(SplitQuotes(decl)[4]).threw

DeclaredName(tar) ==
  SplitQuotes(ReadFile(tar.inside, ArchiveName(tar) \o "-pkg.el").value)[2]
DeclaredVersion(tar) ==
  parseVersion(
    SplitQuotes(ReadFile(tar.inside, ArchiveName(tar) \o "-pkg.el").value)[4]).value

Mismatch(tar) ==
  /\ OneEntry(tar)
  /\ Declares(tar)
  /\ DeclaredName(tar) # ArchiveName(tar) \/ DeclaredVersion(tar) # ArchiveVersion(tar)

\* the message quotes the value declared and the value of the archive
NamesBoth(message, tar) ==
  \/ /\ DeclaredName(tar) # ArchiveName(tar)
     /\ Contains(message, "\"" \o DeclaredName(tar) \o "\"")
     /\ Contains(message, "\"" \o ArchiveName(tar) \o "\"")
  \/ /\ DeclaredVersion(tar) # ArchiveVersion(tar)
     /\ Contains(message, "\"" \o JoinDots(DeclaredVersion(tar)) \o "\"")
     /\ Contains(message, "\"" \o JoinDots(ArchiveVersion(tar)) \o "\"")

\* C20 -- archive cross-check: an archive whose one entry is <name>-<version>
\* and whose <name>-pkg.el declares another name or another version fails
\* with a SyntaxError that names both values; an archive whose content is
\* not exactly one entry named <package>-<version> fails with a SyntaxError;
\* neither returns a metadata record.
C20_ArchiveCrossCheck ==
  Returned("parseTar_") =>
    /\ Mismatch(px.arg) =>
         /\ px.out.threw
         /\ px.out.error.class = "SyntaxError"
         /\ NamesBoth(px.out.error.message, px.arg)
    /\ ~OneEntry(px.arg) =>
         /\ px.out.threw
         /\ px.out.error.class = "SyntaxError"

\* the symbol that opens the list written in a text, the empty text when
\* the text does not start with a list that a symbol opens
HeadSymbol(text) ==
  IF Len(text) >= 2 /\ Head(text) = "("
    THEN SubSeq(text, 2, 1 + SymbolLen(Tail(text)))
  ELSE ""

\* the archive of the call has one entry <name>-<version> that holds
\* <name>-pkg.el, a list opened by a symbol other than define-package
OtherHead(tar) ==
  /\ OneEntry(tar)
  /\ \E e \in tar.inside : e[1] = ArchiveName(tar) \o "-pkg.el"
  /\ HeadSymbol(ReadFile(tar.inside, ArchiveName(tar) \o "-pkg.el").value)
       \notin {"", "define-package"}

\* C21 -- head of the declaration: an archive whose <name>-pkg.el is a list
\* opened by a symbol other than define-package fails with the SyntaxError
\* Expected a call to define-package, and no metadata is returned.
C21_DefinePackageRequired ==
  Returned("parseTar_") /\ OtherHead(px.arg) =>
    /\ px.out.threw
    /\ px.out.error.class = "SyntaxError"
    /\ px.out.error.message = "Expected a call to define-package"

\* the archive has one entry <name>-<version> whose <name>-pkg.el is a
\* declaration that parseDeclaration takes, of that name and that version
ValidDeclaration(tar) ==
  /\ OneEntry(tar)
  /\ Declares(tar)
  /\ DeclaredName(tar) = ArchiveName(tar)
  /\ DeclaredVersion(tar) = ArchiveVersion(tar)
  /\ ~parseDeclaration(
        ReadFile(tar.inside, ArchiveName(tar) \o "-pkg.el").value).threw

HasFile(tar, file) == \E e \in tar.inside : e[1] = file

\* the extraction is over and its archive was unpacked and listed
Extracted == Extracting("done") /\ px.name # ""

\* C22 -- optional files: an archive with a valid <name>-pkg.el and no
\* <name>.el or no README is extracted with empty headers or a null
\* commentary, and the callback of the extraction is called exactly once
\* whichever of the two files are missing.
C22_OptionalFiles ==
  /\ Extracting("done") => px.calls = 1
  /\ Extracted /\ ValidDeclaration(px.arg) =>
       /\ ~px.out[1].threw
       /\ ~HasFile(px.arg, px.name \o ".el") =>
            px.out[1].value.headers = NoHeaders
       /\ ~HasFile(px.arg, "README") =>
            px.out[1].value.commentary.t \in {"null", "undefined"}

\* C23 -- release of the temporary directory: once the directory is made,
\* rm -rf is started in the end, whether the extraction succeeds or fails
\* at unpacking, listing, parsing or the cross-check; and the end of rm -rf,
\* failed or not, changes neither what the callback was passed nor the
\* number of its calls.
C23_TmpDirReleased ==
  /\ ((px.fn = "extract" /\ px.tmpDir) ~> (px.rm # "none"))
  /\ [][px.rm = "issued" /\ px'.rm \in {"removed", "failed"} =>
          px'.out = px.out /\ px'.calls = px.calls]_vars
  /\ [](px.fn = "extract" /\ px.calls > 0 /\ px.tmpDir => px.rm # "none")

\* a removal that failed after a cross-check that failed
C23_Witness ==
  /\ Extracted
  /\ px.rm = "failed"
  /\ px.out[1].threw
  /\ Contains(px.out[1].error.message, "doesn't match archive version")

\* a save that the route starts, once it is over
Posted(q) == Done(q) /\ q.op \in {"saveElispFile", "saveTarFile"}

\* the package uploaded did not parse
Malformed(q) == q.cbErr = SyntaxError \/ q.uncaught = SyntaxError

\* C24 -- status of an upload: POST /v1/packages answers 400 when package
\* extraction raises a SyntaxError and 403 when the user does not own the
\* package, and never answers such a failure as a server error.
C24_UploadStatus ==
  \A r \in ReqIds :
    Posted(reqs[r]) =>
      /\ Malformed(reqs[r]) => PostPackages(reqs[r]) = 400
      /\ ByNonOwner(reqs[r]) => PostPackages(reqs[r]) = 403

\* the events of a given name, in the order they were emitted
RECURSIVE Named(_, _)
Named(events, name) ==
  IF Len(events) = 0 THEN <<>>
  ELSE (IF Head(events).name = name THEN <<Head(events).arg>> ELSE <<>>)
         \o Named(Tail(events), name)

\* C25 -- stream protocol: a package stream emits data events and then one
\* end or one error event, a storage failure being an error event; so once
\* the stream has stopped, the callback of stream.all has been called
\* exactly once, with the records in the order emitted or with the error.
C25_StreamProtocol ==
  px.fn = "all" =>
    /\ \A k \in 1..Len(px.emitted) :
         /\ px.emitted[k].name \in {"data", "end", "error"}
         /\ px.emitted[k].name # "data" => k = Len(px.emitted)
    /\ px.calls <= 1
    /\ px.pc = "stopped" =>
         /\ px.calls = 1
         /\ \/ px.cbErr = <<StorageError>>
            \/ /\ px.cbErr = <<>>
               /\ px.pos = Len(px.docs)
               /\ \/ px.cbArgs = <<px.docs>>
                  \/ px.docs = <<>> /\ px.cbArgs = <<>>

\* the list is well formed: it is terminated and each of its expressions is
\* one that a token rule of the parser takes
WellFormed(l) ==
  l.closed /\ \A i \in 1..Len(l.items) : l.items[i] \in ExpTexts

\* C26 -- sexpParser.parse: the text of a well-formed list gives a list
\* with one element per expression, in order (an expression whose value is
\* the empty string or zero included), and a SyntaxError is thrown for
\* malformed input only (an unterminated list, an unrecognized token).
C26_ParseList ==
  Returned("parse") =>
    /\ px.out.err => ~WellFormed(px.arg)
    /\ WellFormed(px.arg) =>
         /\ px.out.val.t = "array"
         /\ Len(px.out.val.l) = Len(px.arg.items)
         /\ \A i \in 1..Len(px.arg.items) :
              px.out.val.l[i] = parse(px.arg.items[i]).val

\* every segment of the version string is all digits
AllDigits(str) ==
  \A i \in 1..Len(SplitDots(str)) :
    /\ Len(SplitDots(str)[i]) > 0
    /\ Span(SplitDots(str)[i], DigitChars) = Len(SplitDots(str)[i])

\* a version of at least one element, all non-negative integers
IsVersion(version) ==
  Len(version) >= 1 /\ \A i \in 1..Len(version) : version[i] \in Nat

\* a metadata record whose version, and the version of each of its
\* requirements, is such a version
VersionsValid(pkg) ==
  /\ IsVersion(pkg.version)
  /\ \A i \in 1..Len(pkg.requires) : IsVersion(pkg.requires[i][2])

\* C27 -- versions: every metadata record returned by parseElisp or by the
\* extraction of an archive has a version of at least one element, every
\* element of it and of every dependency version being a non-negative
\* integer; and a version string with a segment that is not all digits (an
\* empty segment, letters, extra lines of text) is rejected with a
\* SyntaxError whose message holds the string.
C27_VersionInvariant ==
  /\ (Returned("parseElisp") \/ Returned("parseTar_")) /\ ~px.out.threw
       => VersionsValid(px.out.value)
  /\ Returned("parseVersion") =>
       IF AllDigits(px.arg) THEN ~px.out.threw /\ IsVersion(px.out.value)
       ELSE /\ px.out.threw
            /\ px.out.error.class = "SyntaxError"
            /\ Contains(px.out.error.message, "\"" \o px.arg \o "\"")

\* C28 -- limit: the view emits the first min(n, length) elements as data
\* and nothing else as data, the stream has been paused by the time it
\* emits an element beyond the n-th, end is emitted at most once (no second
\* end when the stream ends later), and no event follows end.
C28_LimitView ==
  px.fn = "limit" =>
    /\ Named(px.out, "data") =
         SubSeq(px.docs, 1, IF px.pos < px.n THEN px.pos ELSE px.n)
    /\ px.pos > px.n => px.pauses >= 1
    /\ Len(Named(px.out, "end")) <= 1
    /\ \A k \in 1..Len(px.out) : px.out[k].name = "end" => k = Len(px.out)

\* a save that savePackage_ rejected for missing ownership or for a
\* duplicate version
Rejected(q) ==
  IsSave(q) /\ q.spRes \in {PermissionsError, DuplicateVersionError}

\* the request is at the write of its bytes, its version row inserted
InsertedBy(q) ==
  /\ q.pc = "writeBlob"
  /\ q.spRes = "ok"
  /\ \E i \in 1..Len(packageVersions) : packageVersions[i] = VersionDoc(q)

FirstUpload(q) ==
  IsSave(q) /\ q.pc # "idle" /\ Len(q.name) > 0 /\ q.user \in Users /\ ~q.found

\* Two first uploads of one key by two different users are under way or
\* over, and no other operation has been called: each looked for the
\* Package before the other had inserted it.
RacedFirst(q1, q2) ==
  /\ started = 2
  /\ FirstUpload(q1) /\ FirstUpload(q2)
  /\ toLowerCase(q1.name) = toLowerCase(q2.name)
  /\ q1.user # q2.user

Won(q) ==
  /\ PackageExists(toLowerCase(q.name))
  /\ PackageDoc(toLowerCase(q.name))[1].owners = <<q.user>>

\* the save is over and has not succeeded: its caller got an error, or the
\* error was thrown
FailedWithError(q) ==
  /\ q.spRes \notin {"ok", "none"}
  /\ q.cbErr # NoErr \/ q.uncaught # NoErr

====
